---- MODULE Spec2Model ----
(***************************************************************************)
(* A model of the Task lifecycle and of the Board of daikanban             *)
(* (src/daikanban/model.py).                                               *)
(*                                                                         *)
(* A Task is an immutable value; every operation builds a new value with   *)
(* Model._replace, which runs the constructor and so the validator         *)
(* check_consistent_times.  Time is counted in whole days, so that         *)
(* get_duration_between(a, b) is b - a (SpecFloat alone counts in          *)
(* fractions of a day).  An unset (None) field is -1; an unset set-valued  *)
(* field is {-1}.                                                          *)
(*                                                                         *)
(* The specifications share the variables:                                 *)
(*   Spec       one task, built with any keyword arguments, and the calls  *)
(*              made on it (board held empty);                             *)
(*   SpecLife   a todo task taken through start/pause/resume/complete,     *)
(*              with the intervals it was active in recorded in hist;      *)
(*   SpecBoard  a Board, built empty or from the maps of a snapshot, and   *)
(*              the calls made on it (task held absent);                   *)
(*   SpecLookup the lookups by name on the boards a snapshot can hold;     *)
(*   SpecMerge  two boards holding versions of the same entities, board    *)
(*              and source, merged into one another by update_with_board;  *)
(*   SpecUuid   the uuid allocator of a Board, one pass of its loop at a   *)
(*              time (SpecUuidFair: with fair draws);                      *)
(*   SpecBuilt  the calls of SpecBoard on the boards built from the empty  *)
(*              board only;                                                *)
(*   SpecFloat  the lifecycle of SpecLife on timestamps that are fractions *)
(*              of a day, where durations are rounded quotients.           *)
(***************************************************************************)
EXTENDS Integers, FiniteSets, Sequences, TLC

VARIABLES now, task, last, hist, board, blast, config, source

vars == <<now, task, last, hist, board, blast, config, source>>

\* what the calls on a single task leave alone
others == <<hist, board, blast, config, source>>

----------------------------------------------------------------------------
(* Bounds *)

MaxTime == 3
MaxPrior == 1

----------------------------------------------------------------------------
(* Values *)

None == -1
NoneSet == {-1}

Times == 0..MaxTime
TimesOpt == Times \cup {None}
PriorOpt == (0..MaxPrior) \cup {None}

TaskStatus == {"todo", "active", "paused", "complete"}
TaskStatusAction == {"start", "complete", "pause", "resume"}

\* `a or b` on optional datetimes: a datetime is always truthy
OrElse(a, b) == IF a = None THEN b ELSE a

get_duration_between(dt1, dt2) == dt2 - dt1

\* the fields of Task, in declaration order
TaskFields ==
    {"name", "uuid", "description", "priority", "expected_difficulty",
     "expected_duration", "due_time", "project_id", "tags", "links",
     "created_time", "modified_time", "first_started_time",
     "last_started_time", "last_paused_time", "completed_time",
     "prior_time_worked", "blocked_by", "parent", "logs", "notes", "extra"}

\* Task(name=..., created_time=c, ...): the keyword arguments of a direct
\* construction at clock reading cur.  full chooses whether the optional
\* descriptive fields are given.
TaskKw(cur, c, f, ls, lp, co, pr, full) ==
    [name |-> "task", uuid |-> 0,
     description |-> IF full THEN 1 ELSE None,
     priority |-> IF full THEN 1 ELSE None,
     expected_difficulty |-> IF full THEN 1 ELSE None,
     expected_duration |-> IF full THEN 1 ELSE None,
     due_time |-> IF full THEN 0 ELSE None,
     project_id |-> IF full THEN 0 ELSE None,
     tags |-> IF full THEN 1 ELSE None,
     links |-> IF full THEN 1 ELSE None,
     created_time |-> c,
     modified_time |-> cur,
     first_started_time |-> f,
     last_started_time |-> ls,
     last_paused_time |-> lp,
     completed_time |-> co,
     prior_time_worked |-> pr,
     blocked_by |-> IF full THEN {1} ELSE NoneSet,
     parent |-> IF full THEN 1 ELSE None,
     logs |-> IF full THEN 1 ELSE None,
     notes |-> IF full THEN 1 ELSE None,
     extra |-> IF full THEN 1 ELSE None]

\* the absence of a task (a failed construction)
NoTask == [TaskKw(None, None, None, None, None, None, None, FALSE) EXCEPT !.name = ""]

----------------------------------------------------------------------------
(* Results of an operation: a value or a raised exception *)

Ok(t) == [kind |-> "ok", msg |-> "", task |-> t]
Raise(kind, msg) == [kind |-> kind, msg |-> msg, task |-> NoTask]

----------------------------------------------------------------------------
(* Task *)

\* status with completed_time looked at before last_paused_time
StatusPausedLast(t) ==
    IF t.first_started_time = None THEN "todo"
    ELSE IF t.completed_time # None THEN "complete"
    ELSE IF t.last_paused_time # None THEN "paused"
    ELSE "active"

\* Task.status
Status(t) ==
    IF t.first_started_time = None THEN "todo"
    ELSE IF t.last_paused_time # None THEN "paused"
    ELSE IF t.completed_time # None THEN "complete"
    ELSE "active"

\* total_time_worked measuring the current interval from its end to its start
TotalTimeWorkedBackwards(t, cur) ==
    LET dur == IF t.prior_time_worked = None THEN 0 ELSE t.prior_time_worked
        last_started_time == OrElse(t.last_started_time, t.first_started_time)
    IN  IF t.last_paused_time = None /\ last_started_time # None
        THEN dur + get_duration_between(OrElse(t.completed_time, cur), last_started_time)
        ELSE dur

\* Task.total_time_worked, read at clock reading cur
TotalTimeWorked(t, cur) ==
    LET dur == IF t.prior_time_worked = None THEN 0 ELSE t.prior_time_worked
        last_started_time == OrElse(t.last_started_time, t.first_started_time)
    IN  IF t.last_paused_time = None /\ last_started_time # None
        THEN dur + get_duration_between(last_started_time, OrElse(t.completed_time, cur))
        ELSE dur

\* the validator without the rule on completed_time and last_started_time
CheckTimesNoLastStarted(t) ==
    IF t.first_started_time # None /\ t.first_started_time < t.created_time
        THEN "Task start time cannot precede created time"
    ELSE IF t.last_started_time # None /\ t.first_started_time = None
        THEN "Task missing first started time"
    ELSE IF t.last_started_time # None /\ t.last_started_time < t.first_started_time
        THEN "Task last started time cannot precede first started time"
    ELSE IF t.last_paused_time # None /\ t.first_started_time = None
        THEN "Task missing first started time"
    ELSE IF t.last_paused_time # None /\ t.last_started_time # None
        THEN "Task cannot have both a last started and last paused time"
    ELSE IF t.last_paused_time # None /\ t.last_paused_time < t.first_started_time
        THEN "Task last paused time cannot precede first started time"
    ELSE IF t.completed_time # None /\ t.first_started_time = None
        THEN "Task missing first started time"
    ELSE IF t.completed_time # None /\ t.completed_time < t.first_started_time
        THEN "Task completed time cannot precede first started time"
    ELSE IF Status(t) = "paused" /\ t.prior_time_worked = None
        THEN "Task in paused or completed status must set prior time worked"
    ELSE ""

\* Task.check_consistent_times: the message of the first violated rule,
\* "" if the timestamps are consistent
CheckConsistentTimes(t) ==
    IF t.first_started_time # None /\ t.first_started_time < t.created_time
        THEN "Task start time cannot precede created time"
    ELSE IF t.last_started_time # None /\ t.first_started_time = None
        THEN "Task missing first started time"
    ELSE IF t.last_started_time # None /\ t.last_started_time < t.first_started_time
        THEN "Task last started time cannot precede first started time"
    ELSE IF t.last_paused_time # None /\ t.first_started_time = None
        THEN "Task missing first started time"
    ELSE IF t.last_paused_time # None /\ t.last_started_time # None
        THEN "Task cannot have both a last started and last paused time"
    ELSE IF t.last_paused_time # None /\ t.last_paused_time < t.first_started_time
        THEN "Task last paused time cannot precede first started time"
    ELSE IF t.completed_time # None /\ t.first_started_time = None
        THEN "Task missing first started time"
    ELSE IF t.completed_time # None /\ t.completed_time < t.first_started_time
        THEN "Task completed time cannot precede first started time"
    ELSE IF t.completed_time # None /\ t.last_started_time # None
            /\ t.completed_time < t.last_started_time
        THEN "Task completed time cannot precede last started time"
    ELSE IF Status(t) = "paused" /\ t.prior_time_worked = None
        THEN "Task in paused or completed status must set prior time worked"
    ELSE ""

\* The dataclass constructor Task(**d): the validator runs on the candidate
\* value.  InconsistentTimestampError is a ValueError (KanbanError), which
\* the pydantic constructor reports as a ValidationError carrying the message.
NewTask(d) ==
    LET msg == CheckConsistentTimes(d)
    IN  IF msg = "" THEN Ok(d) ELSE Raise("ValidationError", msg)

\* started() without its own check of dt against created_time
StartedUnguarded(t, dt, cur) ==
    IF Status(t) = "todo"
    THEN NewTask([t EXCEPT !.first_started_time = OrElse(dt, cur), !.modified_time = cur])
    ELSE Raise("TaskStatusError", "cannot start task")

\* Task.started
Started(t, dt, cur) ==
    IF Status(t) = "todo"
    THEN LET d == OrElse(dt, cur)
         IN  IF d < t.created_time
             THEN Raise("TaskStatusError", "cannot start a task before its creation time")
             ELSE NewTask([t EXCEPT !.first_started_time = d, !.modified_time = cur])
    ELSE Raise("TaskStatusError", "cannot start task")

\* completed() accepting every started task
CompletedWhenStarted(t, dt, cur) ==
    IF Status(t) # "todo"
    THEN LET d == OrElse(dt, cur)
             last_started_time == OrElse(t.last_started_time, t.first_started_time)
         IN  IF d < last_started_time
             THEN Raise("TaskStatusError", "cannot complete a task before its last started time")
             ELSE NewTask([t EXCEPT !.completed_time = d, !.modified_time = cur])
    ELSE Raise("TaskStatusError", "cannot complete task")

\* Task.completed
Completed(t, dt, cur) ==
    IF Status(t) = "active"
    THEN LET d == OrElse(dt, cur)
             last_started_time == OrElse(t.last_started_time, t.first_started_time)
         IN  IF d < last_started_time
             THEN Raise("TaskStatusError", "cannot complete a task before its last started time")
             ELSE NewTask([t EXCEPT !.completed_time = d, !.modified_time = cur])
    ELSE Raise("TaskStatusError", "cannot complete task")

\* paused() measuring the elapsed time from first_started_time
PausedFromFirstStart(t, dt, cur) ==
    IF Status(t) = "active"
    THEN LET d == OrElse(dt, cur)
             last_started_time == OrElse(t.last_started_time, t.first_started_time)
             dur == (IF t.prior_time_worked = None THEN 0 ELSE t.prior_time_worked)
                        + get_duration_between(t.first_started_time, d)
         IN  IF d < last_started_time
             THEN Raise("TaskStatusError", "cannot pause a task before its last started time")
             ELSE NewTask([t EXCEPT !.last_started_time = None, !.last_paused_time = d,
                                    !.prior_time_worked = dur, !.modified_time = cur])
    ELSE Raise("TaskStatusError", "cannot pause task")

\* Task.paused
Paused(t, dt, cur) ==
    IF Status(t) = "active"
    THEN LET d == OrElse(dt, cur)
             last_started_time == OrElse(t.last_started_time, t.first_started_time)
             dur == (IF t.prior_time_worked = None THEN 0 ELSE t.prior_time_worked)
                        + get_duration_between(last_started_time, d)
         IN  IF d < last_started_time
             THEN Raise("TaskStatusError", "cannot pause a task before its last started time")
             ELSE NewTask([t EXCEPT !.last_started_time = None, !.last_paused_time = d,
                                    !.prior_time_worked = dur, !.modified_time = cur])
    ELSE Raise("TaskStatusError", "cannot pause task")

\* resumed() reopening a complete task without folding the time worked
ResumedKeepsPrior(t, dt, cur) ==
    IF Status(t) \in {"paused", "complete"}
    THEN LET d == OrElse(dt, cur)
         IN  IF Status(t) = "paused"
             THEN IF d < t.last_paused_time
                  THEN Raise("TaskStatusError", "cannot resume a task before its last paused time")
                  ELSE NewTask([t EXCEPT !.last_started_time = d, !.last_paused_time = None,
                                         !.modified_time = cur])
             ELSE IF d < t.completed_time
                  THEN Raise("TaskStatusError", "cannot resume a task before its completed time")
                  ELSE NewTask([t EXCEPT !.last_started_time = d,
                                         !.completed_time = None, !.modified_time = cur])
    ELSE Raise("TaskStatusError", "cannot resume task")

\* Task.resumed
Resumed(t, dt, cur) ==
    IF Status(t) \in {"paused", "complete"}
    THEN LET d == OrElse(dt, cur)
         IN  IF Status(t) = "paused"
             THEN IF d < t.last_paused_time
                  THEN Raise("TaskStatusError", "cannot resume a task before its last paused time")
                  ELSE NewTask([t EXCEPT !.last_started_time = d, !.last_paused_time = None,
                                         !.modified_time = cur])
             ELSE IF d < t.completed_time
                  THEN Raise("TaskStatusError", "cannot resume a task before its completed time")
                  ELSE NewTask([t EXCEPT !.last_started_time = d,
                                         !.prior_time_worked = TotalTimeWorked(t, cur),
                                         !.completed_time = None, !.modified_time = cur])
    ELSE Raise("TaskStatusError", "cannot resume task")

\* Task.apply_status_action
ApplyStatusAction(t, action, dt, first_dt, cur) ==
    IF action = "start" THEN Started(t, dt, cur)
    ELSE IF action = "complete"
    THEN IF Status(t) = "todo"
         THEN LET s == Started(t, first_dt, cur)
              IN  IF s.kind = "ok" THEN Completed(s.task, dt, cur) ELSE s
         ELSE IF Status(t) \in {"active", "complete"}
         THEN Completed(t, dt, cur)
         ELSE LET s == Resumed(t, first_dt, cur)
              IN  IF s.kind = "ok" THEN Completed(s.task, dt, cur) ELSE s
    ELSE IF action = "pause"
    THEN IF Status(t) = "todo"
         THEN LET s == Started(t, first_dt, cur)
              IN  IF s.kind = "ok" THEN Paused(s.task, dt, cur) ELSE s
         ELSE Paused(t, dt, cur)
    ELSE Resumed(t, dt, cur)

\* task._replace(modified_time=cur, field=val), as Board.update_task builds
\* the replacement value
Replace(t, field, val, cur) ==
    NewTask([[t EXCEPT !.modified_time = cur] EXCEPT ![field] = val])

\* the reset list without blocked_by
RESET_FIELDS_KeepBlockedBy ==
    {"due_time", "first_started_time", "last_started_time", "last_paused_time",
     "completed_time", "prior_time_worked", "parent", "logs"}

\* Task.RESET_FIELDS
RESET_FIELDS ==
    {"due_time", "first_started_time", "last_started_time", "last_paused_time",
     "completed_time", "prior_time_worked", "blocked_by", "parent", "logs"}

\* Task.reset
Reset(t, cur) ==
    NewTask([f \in TaskFields |->
                IF f = "modified_time" THEN cur
                ELSE IF f \in RESET_FIELDS
                     THEN (IF f = "blocked_by" THEN NoneSet ELSE None)
                     ELSE t[f]])

----------------------------------------------------------------------------
(* The state: the clock, the task at hand, and the last call with its result *)

Call(op, pre, action, dt, first_dt, cur, res) ==
    [op |-> op, pre |-> pre, action |-> action, dt |-> dt, first_dt |-> first_dt,
     cur |-> cur, res |-> res]

Idle == Call("idle", NoTask, "", None, None, None, Raise("", ""))

\* the task after a call: the returned value, or the receiver if it raised
After(pre, res) == IF res.kind = "ok" THEN res.task ELSE pre

\* no interval recorded
NoHist == [fresh |-> FALSE, closed |-> 0, open |-> None, ops |-> <<>>]

\* Board(name='myboard'): no projects, no tasks, both uuid indices empty
EmptyBoard ==
    [name |-> "myboard", description |-> None, created_time |-> 0,
     projects |-> <<>>, tasks |-> <<>>, version |-> 0,
     project_uuid_to_id |-> <<>>, task_uuid_to_id |-> <<>>]

\* no call made on the board
BoardIdle == [op |-> "idle"]

\* Config(): names are not case-sensitive by default
DefaultConfig == [case_sensitive |-> FALSE]

\* task = Task(name=..., created_time=..., ...): the state after a direct
\* construction at clock reading 0, with any keyword arguments
Init ==
    /\ now = 0
    /\ hist = NoHist
    /\ board = EmptyBoard
    /\ blast = BoardIdle
    /\ config = DefaultConfig
    /\ source = EmptyBoard
    /\ \E c \in Times, f \in TimesOpt, ls \in TimesOpt, lp \in TimesOpt,
          co \in TimesOpt, pr \in PriorOpt, full \in BOOLEAN :
        LET kw == TaskKw(0, c, f, ls, lp, co, pr, full)
            res == NewTask(kw)
        IN  /\ last = Call("construct", kw, "", None, None, 0, res)
            /\ task = After(NoTask, res)

\* get_current_time() advances; successive calls read increasing clock values
Tick ==
    /\ task # NoTask
    /\ now < MaxTime
    /\ now' = now + 1
    /\ last' = Idle
    /\ UNCHANGED <<task, others>>

\* a call is made on the task at hand, at a clock reading later than the
\* previous call's
Ready == task # NoTask /\ last = Idle

DoStarted ==
    /\ Ready
    /\ \E dt \in TimesOpt :
        LET res == Started(task, dt, now)
        IN  /\ last' = Call("started", task, "", dt, None, now, res)
            /\ task' = After(task, res)
            /\ UNCHANGED <<now, others>>

DoCompleted ==
    /\ Ready
    /\ \E dt \in TimesOpt :
        LET res == Completed(task, dt, now)
        IN  /\ last' = Call("completed", task, "", dt, None, now, res)
            /\ task' = After(task, res)
            /\ UNCHANGED <<now, others>>

DoPaused ==
    /\ Ready
    /\ \E dt \in TimesOpt :
        LET res == Paused(task, dt, now)
        IN  /\ last' = Call("paused", task, "", dt, None, now, res)
            /\ task' = After(task, res)
            /\ UNCHANGED <<now, others>>

DoResumed ==
    /\ Ready
    /\ \E dt \in TimesOpt :
        LET res == Resumed(task, dt, now)
        IN  /\ last' = Call("resumed", task, "", dt, None, now, res)
            /\ task' = After(task, res)
            /\ UNCHANGED <<now, others>>

\* first_dt is read only by the two-step cases
UsesFirstDt(t, action) ==
    \/ action = "complete" /\ Status(t) \in {"todo", "paused"}
    \/ action = "pause" /\ Status(t) = "todo"

DoApplyStatusAction ==
    /\ Ready
    /\ \E action \in TaskStatusAction, dt \in TimesOpt, first_dt \in TimesOpt :
        LET res == ApplyStatusAction(task, action, dt, first_dt, now)
        IN  /\ first_dt # None => UsesFirstDt(task, action)
            /\ last' = Call("apply_status_action", task, action, dt, first_dt, now, res)
            /\ task' = After(task, res)
            /\ UNCHANGED <<now, others>>

\* the fields an update may set in this model, with their values
UpdateValues(field) ==
    IF field = "prior_time_worked" THEN PriorOpt ELSE TimesOpt

UpdateFields ==
    {"first_started_time", "last_started_time", "last_paused_time",
     "completed_time", "prior_time_worked"}

DoReplace ==
    /\ Ready
    /\ \E field \in UpdateFields :
        \E val \in UpdateValues(field) :
            LET res == Replace(task, field, val, now)
            IN  /\ last' = Call("replace", task, field, val, None, now, res)
                /\ task' = After(task, res)
                /\ UNCHANGED <<now, others>>

DoReset ==
    /\ Ready
    /\ LET res == Reset(task, now)
       IN  /\ last' = Call("reset", task, "", None, None, now, res)
           /\ task' = After(task, res)
           /\ UNCHANGED <<now, others>>

Next ==
    \/ Tick
    \/ DoStarted
    \/ DoCompleted
    \/ DoPaused
    \/ DoResumed
    \/ DoApplyStatusAction
    \/ DoReplace
    \/ DoReset

Spec == Init /\ [][Next]_vars

----------------------------------------------------------------------------
(* What the claims speak of: the last call, its receiver and its result *)

Pre == last.pre
Out == last.res.task
Succeeded == last.res.kind = "ok"
\* dt or cur_time
EffDt == OrElse(last.dt, last.cur)
\* last_started_time or first_started_time
EffStart(t) == OrElse(t.last_started_time, t.first_started_time)
PriorOrZero(t) == IF t.prior_time_worked = None THEN 0 ELSE t.prior_time_worked

\* the timestamp rules, as section 4.1 of the specification lists them
TimestampRules(t) ==
    /\ t.first_started_time # None => t.first_started_time >= t.created_time
    /\ t.last_started_time # None =>
        /\ t.first_started_time # None
        /\ t.last_started_time >= t.first_started_time
        /\ t.last_paused_time = None
    /\ t.last_paused_time # None =>
        /\ t.first_started_time # None
        /\ t.last_paused_time >= t.first_started_time
    /\ t.completed_time # None =>
        /\ t.first_started_time # None
        /\ t.completed_time >= t.first_started_time
        /\ t.last_started_time # None => t.completed_time >= t.last_started_time
    /\ (t.first_started_time # None /\ t.last_paused_time # None) =>
        t.prior_time_worked # None

----------------------------------------------------------------------------
(* C1 *)

\* C1: the status of every task is fixed by first_started_time,
\* last_paused_time and completed_time: todo iff first_started_time is
\* unset; paused iff first_started_time and last_paused_time are set;
\* complete iff first_started_time is set, last_paused_time unset and
\* completed_time set; active iff first_started_time is set and the other two
\* unset.  Exactly one of the four holds.
C1_StatusFromTimestamps ==
    task # NoTask =>
        LET f == task.first_started_time # None
            p == task.last_paused_time # None
            c == task.completed_time # None
            s == Status(task)
        IN  /\ s \in TaskStatus
            /\ (s = "todo") <=> ~f
            /\ (s = "paused") <=> (f /\ p)
            /\ (s = "complete") <=> (f /\ ~p /\ c)
            /\ (s = "active") <=> (f /\ ~p /\ ~c)

\* a task with both last_paused_time and completed_time set exists
C1_Witness ==
    /\ task # NoTask
    /\ task.first_started_time # None
    /\ task.last_paused_time # None
    /\ task.completed_time # None

----------------------------------------------------------------------------
(* C2 *)

\* the statuses from which each single-step transition may succeed
AllowedFrom(op) ==
    IF op = "started" THEN {"todo"}
    ELSE IF op \in {"completed", "paused"} THEN {"active"}
    ELSE {"paused", "complete"}

\* C2: started() succeeds only on a todo task, completed() and paused() only
\* on an active task, resumed() only on a paused or complete task; in any
\* other status the call raises TaskStatusError, and the task it was called
\* on stays as it was.
C2_TransitionsGuardedByStatus ==
    last.op \in {"started", "completed", "paused", "resumed"} =>
        /\ Succeeded => Status(Pre) \in AllowedFrom(last.op)
        /\ Status(Pre) \notin AllowedFrom(last.op) =>
            /\ last.res.kind = "TaskStatusError"
            /\ task = Pre

\* completed() was called on a complete task and raised
C2_Witness ==
    /\ last.op = "completed"
    /\ Status(Pre) = "complete"
    /\ last.res.kind = "TaskStatusError"

----------------------------------------------------------------------------
(* C3 *)

\* C3 as stated: every task satisfies the timestamp rules, and building a
\* task that violates one fails with InconsistentTimestampError.
C3_Original ==
    /\ task # NoTask => TimestampRules(task)
    /\ (last.op \in {"construct", "replace"} /\ ~Succeeded) =>
        last.res.kind = "InconsistentTimestampError"

\* C3, amended: every task that exists, whether constructed directly,
\* returned by a transition or by reset, or built as the replacement value of
\* an update, satisfies all the timestamp rules; a construction or update
\* whose value would violate a rule produces no task: it fails with the
\* constructor's ValidationError, which carries the message of the
\* InconsistentTimestampError raised by the validator.
C3_TimestampRulesHold ==
    /\ task # NoTask => TimestampRules(task)
    /\ Succeeded => TimestampRules(Out)
    /\ last.op = "construct" =>
        /\ Succeeded <=> TimestampRules(Pre)
        /\ ~Succeeded =>
            /\ last.res.kind = "ValidationError"
            /\ last.res.msg # ""
            /\ task = NoTask
    /\ last.op = "replace" =>
        LET d == [[Pre EXCEPT !.modified_time = last.cur] EXCEPT ![last.action] = last.dt]
        IN  /\ Succeeded <=> TimestampRules(d)
            /\ Succeeded => Out = d
            /\ ~Succeeded =>
                /\ last.res.kind = "ValidationError"
                /\ last.res.msg # ""
                /\ task = Pre

\* an update that sets completed_time before last_started_time was refused
C3_Witness ==
    /\ last.op = "replace"
    /\ last.action = "completed_time"
    /\ Pre.last_started_time # None
    /\ last.dt # None
    /\ last.dt >= Pre.first_started_time
    /\ last.dt < Pre.last_started_time
    /\ last.res.kind = "ValidationError"

----------------------------------------------------------------------------
(* C4 *)

\* C4 as stated: start(dt) on a todo task with dt before created_time raises
\* InconsistentTimestampError.
C4_Original ==
    (last.op = "started" /\ Status(Pre) = "todo" /\ EffDt < Pre.created_time) =>
        last.res.kind = "InconsistentTimestampError"

\* C4, amended: start(dt) on a todo task with dt before created_time raises
\* TaskStatusError (the guard of started() refuses it before any value is
\* built) and produces no started task.
C4_StartBeforeCreationRefused ==
    (last.op = "started" /\ Status(Pre) = "todo" /\ EffDt < Pre.created_time) =>
        /\ last.res.kind = "TaskStatusError"
        /\ last.res.msg = "cannot start a task before its creation time"
        /\ task = Pre
        /\ Status(task) = "todo"

\* start(dt) was called on a todo task with an explicit dt before created_time
C4_Witness ==
    /\ last.op = "started"
    /\ Status(Pre) = "todo"
    /\ last.dt # None
    /\ last.dt < Pre.created_time
    /\ ~Succeeded

----------------------------------------------------------------------------
(* C5 *)

\* the latest lifecycle event of a task, against which a transition checks dt
LatestEvent(t) ==
    IF Status(t) = "active" THEN EffStart(t)
    ELSE IF Status(t) = "paused" THEN t.last_paused_time
    ELSE t.completed_time

\* C5: complete(dt) and pause(dt) on an active task fail when dt precedes the
\* effective last start, resume(dt) on a paused task when dt precedes
\* last_paused_time, resume(dt) on a complete task when dt precedes
\* completed_time; a dt equal to or later than that event is accepted.
C5_RejectsOnlyEarlierTimestamps ==
    (/\ last.op \in {"completed", "paused", "resumed"}
     /\ Status(Pre) \in AllowedFrom(last.op)) =>
        /\ EffDt < LatestEvent(Pre) => last.res.kind = "TaskStatusError"
        /\ EffDt >= LatestEvent(Pre) => Succeeded

----------------------------------------------------------------------------
(* C6 *)

\* C6: pause(dt) on an active task returns a paused task with
\* last_paused_time = dt, last_started_time unset and prior_time_worked = the
\* old prior_time_worked (0 if unset) plus dt minus the effective last start;
\* first_started_time and completed_time are unchanged.
C6_PauseFoldsElapsedTime ==
    (last.op = "paused" /\ Succeeded) =>
        /\ Status(Pre) = "active"
        /\ Status(Out) = "paused"
        /\ Out.last_paused_time = EffDt
        /\ Out.last_started_time = None
        /\ Out.prior_time_worked = PriorOrZero(Pre) + (EffDt - EffStart(Pre))
        /\ Out.first_started_time = Pre.first_started_time
        /\ Out.completed_time = Pre.completed_time

\* a task that had been resumed, with time already worked, was paused later
C6_Witness ==
    /\ last.op = "paused"
    /\ Succeeded
    /\ Pre.prior_time_worked # None
    /\ Pre.prior_time_worked > 0
    /\ Pre.last_started_time # None
    /\ Pre.last_started_time > Pre.first_started_time
    /\ EffDt > Pre.last_started_time

----------------------------------------------------------------------------
(* C7 *)

\* C7: resume(dt) returns an active task with last_started_time = dt; from
\* paused it clears last_paused_time and keeps prior_time_worked, from
\* complete it clears completed_time and sets prior_time_worked to the time
\* worked up to completed_time; first_started_time is unchanged.
C7_ResumeReturnsActive ==
    (last.op = "resumed" /\ Succeeded) =>
        /\ Status(Out) = "active"
        /\ Out.last_started_time = EffDt
        /\ Out.first_started_time = Pre.first_started_time
        /\ Status(Pre) = "paused" =>
            /\ Out.last_paused_time = None
            /\ Out.prior_time_worked = Pre.prior_time_worked
        /\ Status(Pre) = "complete" =>
            /\ Out.completed_time = None
            /\ Out.prior_time_worked =
                    PriorOrZero(Pre) + (Pre.completed_time - EffStart(Pre))
            /\ TotalTimeWorked(Out, EffDt) = TotalTimeWorked(Pre, EffDt)

----------------------------------------------------------------------------
(* C8 *)

\* the single transition an action names
Single(t, action, dt, cur) ==
    IF action = "start" THEN Started(t, dt, cur)
    ELSE IF action = "complete" THEN Completed(t, dt, cur)
    ELSE IF action = "pause" THEN Paused(t, dt, cur)
    ELSE Resumed(t, dt, cur)

\* the chain of transitions C8 gives for a status and an action
Chained(t, action, dt, first_dt, cur) ==
    IF action = "complete" /\ Status(t) = "todo"
    THEN LET s == Started(t, first_dt, cur)
              IN  IF s.kind = "ok" THEN Completed(s.task, dt, cur) ELSE s
    ELSE IF action = "complete" /\ Status(t) = "paused"
    THEN LET s == Resumed(t, first_dt, cur)
              IN  IF s.kind = "ok" THEN Completed(s.task, dt, cur) ELSE s
    ELSE IF action = "pause" /\ Status(t) = "todo"
    THEN LET s == Started(t, first_dt, cur)
              IN  IF s.kind = "ok" THEN Paused(s.task, dt, cur) ELSE s
    ELSE Single(t, action, dt, cur)

\* STATUS_ACTION_MAP
StatusActionMap(action) ==
    IF action = "start" THEN "active"
    ELSE IF action = "complete" THEN "complete"
    ELSE IF action = "pause" THEN "paused"
    ELSE "active"

\* C8: apply_status_action(action, dt, first_dt) equals the chained
\* single-step transitions (start then complete, resume then complete, start
\* then pause in the two-step cases, the single transition otherwise), fails
\* with TaskStatusError exactly when the chain fails, and on success leaves
\* the task in the status STATUS_ACTION_MAP gives for the action.
C8_ApplyEqualsChain ==
    last.op = "apply_status_action" =>
        /\ last.res = Chained(Pre, last.action, last.dt, last.first_dt, last.cur)
        /\ ~Succeeded => last.res.kind = "TaskStatusError"
        /\ Succeeded => Status(Out) = StatusActionMap(last.action)

----------------------------------------------------------------------------
(* C9 *)

\* the fields C9 lists as cleared by reset()
C9_ClearedAsStated ==
    {"first_started_time", "last_started_time", "last_paused_time",
     "completed_time", "prior_time_worked", "blocked_by", "parent", "logs"}

Unset(f) == IF f = "blocked_by" THEN NoneSet ELSE None

----------------------------------------------------------------------------
(* C10 *)

\* C10: reset() is idempotent as a value operation: resetting the result of a
\* reset again, at whatever time, gives a task equal to it in all fields, and
\* resetting a task already in todo status gives a task equal to it.
C10_ResetIdempotent ==
    (last.op = "reset" /\ Succeeded) =>
        /\ \A c \in Times : c >= last.cur => Reset(Out, c) = Ok(Out)
        /\ Status(Pre) = "todo" => Out = Pre

----------------------------------------------------------------------------
(* The life of a task: a todo task taken through its transitions, with a     *)
(* record of the intervals in which it was active                            *)

MaxOps == 5

\* hist after a successful transition op taking effect at time d: started
\* and resumed open an interval at d, paused and completed close the open
\* interval at d
Recorded(h, op, d) ==
    [fresh |-> h.fresh,
     closed |-> IF op \in {"paused", "completed"} THEN h.closed + (d - h.open)
                ELSE h.closed,
     open |-> IF op \in {"started", "resumed"} THEN d ELSE None,
     ops |-> Append(h.ops, op)]

\* task = Task(name='task', created_time=c, prior_time_worked=pr): a todo
\* task; it is fresh if it carries no prior_time_worked
LifeInit ==
    /\ now = 0
    /\ board = EmptyBoard
    /\ blast = BoardIdle
    /\ config = DefaultConfig
    /\ source = EmptyBoard
    /\ \E c \in Times, pr \in PriorOpt :
        LET kw == TaskKw(0, c, None, None, None, None, pr, FALSE)
        IN  /\ task = kw
            /\ last = Idle
            /\ hist = [fresh |-> pr = None, closed |-> 0, open |-> None, ops |-> <<>>]

\* get_current_time() advances between two calls
LifeTick ==
    /\ now < MaxTime
    /\ now' = now + 1
    /\ UNCHANGED <<task, last, hist, board, blast, config, source>>

\* the call op(dt) made on the task at clock reading now returned res; a
\* call that raised leaves the task, and the record, as they were
LifeCall(op, dt, res) ==
    /\ Len(hist.ops) < MaxOps
    /\ task' = After(task, res)
    /\ hist' = IF res.kind = "ok" THEN Recorded(hist, op, OrElse(dt, now)) ELSE hist
    /\ UNCHANGED <<now, last, board, blast, config, source>>

LifeStarted == \E dt \in TimesOpt : LifeCall("started", dt, Started(task, dt, now))

LifePaused == \E dt \in TimesOpt : LifeCall("paused", dt, Paused(task, dt, now))

LifeResumed == \E dt \in TimesOpt : LifeCall("resumed", dt, Resumed(task, dt, now))

LifeCompleted == \E dt \in TimesOpt : LifeCall("completed", dt, Completed(task, dt, now))

LifeNext ==
    \/ LifeTick
    \/ LifeStarted
    \/ LifePaused
    \/ LifeResumed
    \/ LifeCompleted

SpecLife == LifeInit /\ [][LifeNext]_vars

----------------------------------------------------------------------------
(* C11 *)

\* C11: for every todo task and every choice of timestamps the guards accept,
\* the sequence start, pause, resume, complete yields a complete task with
\* completed_time >= first_started_time and total_time_worked >= 0.
C11_FullCycleYieldsComplete ==
    hist.ops = <<"started", "paused", "resumed", "completed">> =>
        /\ Status(task) = "complete"
        /\ task.completed_time >= task.first_started_time
        /\ \A c \in Times : TotalTimeWorked(task, c) >= 0

\* the four transitions were made at four different times on a todo task
\* that carried time worked before
C11_Witness ==
    /\ hist.ops = <<"started", "paused", "resumed", "completed">>
    /\ ~hist.fresh
    /\ task.completed_time > task.last_started_time
    /\ task.last_started_time > task.first_started_time
    /\ TotalTimeWorked(task, now) > hist.closed

----------------------------------------------------------------------------
(* C12 *)

\* C12: for a task reached from a fresh todo task by start/pause/resume/
\* complete transitions (reopening a completed task included),
\* total_time_worked read at any clock value is the summed length of the
\* closed intervals in which the task was active (from a start or resume to
\* the following pause or complete) plus, only while the task is active, the
\* interval from the last start to the clock value.  A todo task has total 0;
\* the value of a paused or complete task is the same at every clock value,
\* that of an active task grows with the clock.
C12_TotalIsSumOfActiveIntervals ==
    hist.fresh =>
        /\ (hist.open # None) <=> (Status(task) = "active")
        /\ \A c \in Times :
            TotalTimeWorked(task, c) =
                hist.closed + (IF hist.open # None THEN c - hist.open ELSE 0)
        /\ Status(task) = "todo" => \A c \in Times : TotalTimeWorked(task, c) = 0
        /\ \A c1 \in Times, c2 \in Times :
            c1 < c2 =>
                IF Status(task) = "active"
                THEN TotalTimeWorked(task, c1) < TotalTimeWorked(task, c2)
                ELSE TotalTimeWorked(task, c1) = TotalTimeWorked(task, c2)

\* a fresh task was worked on, completed, reopened later and worked on again
C12_Witness ==
    /\ hist.fresh
    /\ Len(hist.ops) >= 4
    /\ hist.ops[2] = "completed"
    /\ hist.ops[3] = "resumed"
    /\ hist.ops[4] = "paused"
    /\ task.prior_time_worked >= 2
    /\ task.last_paused_time > task.first_started_time + task.prior_time_worked

----------------------------------------------------------------------------
(* Board: values *)

MaxId == 2
MaxCalls == 2

\* Id: the ids and uuids the calls and the snapshots of this model use
Ids == 0..MaxId
Uuids == 0..MaxId

\* names: "a" and "A" differ in case only
Names == {"a", "A", "b"}

\* str.lower() on the names of the model
Lower(s) == IF s = "A" THEN "a" ELSE s

\* whitespace_insensitive_match and case_insensitive_match, on names without
\* surrounding whitespace
whitespace_insensitive_match(s1, s2) == s1 = s2
case_insensitive_match(s1, s2) == Lower(s1) = Lower(s2)

\* Config.name_matcher
name_matcher(cfg, s1, s2) ==
    IF cfg.case_sensitive THEN whitespace_insensitive_match(s1, s2)
    ELSE case_insensitive_match(s1, s2)

\* first_name_match(matcher, name, names) is not None
first_name_match(cfg, name, names) == \E n \in names : name_matcher(cfg, name, n)

\* the fields of Project, in declaration order
ProjectFields ==
    {"name", "uuid", "description", "created_time", "modified_time", "links",
     "parent", "notes", "extra"}

\* Project(name=name, uuid=uuid_) constructed at clock reading cur
NewProject(name, uuid_, cur) ==
    [name |-> name, uuid |-> uuid_, description |-> None, created_time |-> cur,
     modified_time |-> cur, links |-> None, parent |-> None, notes |-> None,
     extra |-> None]

\* Task(name=name, uuid=uuid_, project_id=project_id, ...) constructed at
\* clock reading cur; ref, when set, is the id of a task given both as parent
\* and as the only member of blocked_by
BoardTask(name, uuid_, project_id, ref, cur) ==
    [TaskKw(cur, cur, None, None, None, None, None, FALSE) EXCEPT
        !.name = name, !.uuid = uuid_, !.project_id = project_id,
        !.parent = ref, !.blocked_by = IF ref = None THEN NoneSet ELSE {ref}]

\* dict operations
Put(m, k, v) == [i \in (DOMAIN m) \cup {k} |-> IF i = k THEN v ELSE m[i]]
Del(m, k) == [i \in (DOMAIN m) \ {k} |-> m[i]]

\* the outcome of a Board method: "ok" or the exception raised, the board as
\* the call leaves it, and the value returned
BRes(kind, b, ret) == [kind |-> kind, board |-> b, ret |-> ret]

----------------------------------------------------------------------------
(* Board: methods *)

\* an id allocator that numbers after the largest id in use
new_id_after_largest(m) ==
    IF DOMAIN m = {} THEN 0
    ELSE (CHOOSE i \in DOMAIN m : \A j \in DOMAIN m : j <= i) + 1

\* Board.new_project_id, Board.new_task_id: the first of 0, 1, 2, ... that is
\* not a key of the map
new_id(m) ==
    CHOOSE i \in 0..Cardinality(DOMAIN m) :
        /\ i \notin DOMAIN m
        /\ \A j \in 0..(i - 1) : j \in DOMAIN m

project_names(b, but) == {b.projects[i].name : i \in (DOMAIN b.projects) \ but}

\* the names of all the tasks, complete or not
all_task_names(b, but) == {b.tasks[i].name : i \in (DOMAIN b.tasks) \ but}

\* the names of the tasks with completed_time unset, those under the ids in
\* but left out
incomplete_task_names(b, but) ==
    {b.tasks[i].name : i \in {j \in (DOMAIN b.tasks) \ but : b.tasks[j].completed_time = None}}

\* Board.create_project
create_project(b, project, cfg) ==
    IF project.uuid \in DOMAIN b.project_uuid_to_id
    THEN BRes("DuplicateProjectError", b, None)
    ELSE IF first_name_match(cfg, project.name, project_names(b, {}))
    THEN BRes("DuplicateProjectNameError", b, None)
    ELSE LET id_ == new_id(b.projects)
         IN  BRes("ok",
                  [b EXCEPT !.projects = Put(@, id_, project),
                            !.project_uuid_to_id = Put(@, project.uuid, id_)],
                  id_)

\* Board.create_task
create_task(b, t, cfg) ==
    IF t.uuid \in DOMAIN b.task_uuid_to_id
    THEN BRes("DuplicateTaskError", b, None)
    ELSE IF t.project_id # None /\ t.project_id \notin DOMAIN b.projects
    THEN BRes("ProjectNotFoundError", b, None)
    ELSE IF first_name_match(cfg, t.name, incomplete_task_names(b, {}))
    THEN BRes("DuplicateTaskNameError", b, None)
    ELSE LET id_ == new_id(b.tasks)
         IN  BRes("ok",
                  [b EXCEPT !.tasks = Put(@, id_, t),
                            !.task_uuid_to_id = Put(@, t.uuid, id_)],
                  id_)

\* {'modified_time': get_current_time(), **kwargs}
with_modified_time(kwargs, cur) ==
    [f \in (DOMAIN kwargs) \cup {"modified_time"} |->
        IF f \in DOMAIN kwargs THEN kwargs[f] ELSE cur]

\* Model._replace(**kwargs) on a Project: an unknown key raises TypeError
ReplaceProject(p, kwargs) ==
    IF \E f \in DOMAIN kwargs : f \notin ProjectFields
    THEN [kind |-> "TypeError", project |-> p]
    ELSE [kind |-> "ok",
          project |-> [f \in ProjectFields |-> IF f \in DOMAIN kwargs THEN kwargs[f] ELSE p[f]]]

\* Model._replace(**kwargs) on a Task: an unknown key raises TypeError, and
\* the constructor validates the new value
ReplaceTask(t, kwargs) ==
    IF \E f \in DOMAIN kwargs : f \notin TaskFields
    THEN Raise("TypeError", "Unknown field")
    ELSE NewTask([f \in TaskFields |-> IF f \in DOMAIN kwargs THEN kwargs[f] ELSE t[f]])

\* Board.update_project
update_project(b, project_id, kwargs, cur, cfg) ==
    IF "uuid" \in DOMAIN kwargs
    THEN BRes("UUIDImmutableError", b, None)
    ELSE IF project_id \notin DOMAIN b.projects
    THEN BRes("ProjectNotFoundError", b, None)
    ELSE IF /\ "name" \in DOMAIN kwargs
            /\ first_name_match(cfg, kwargs.name, project_names(b, {project_id}))
    THEN BRes("DuplicateProjectNameError", b, None)
    ELSE LET r == ReplaceProject(b.projects[project_id], with_modified_time(kwargs, cur))
         IN  IF r.kind # "ok" THEN BRes(r.kind, b, None)
             ELSE BRes("ok", [b EXCEPT !.projects[project_id] = r.project], None)

\* delete_project that leaves the tasks of the project pointing at it
delete_project_no_cascade(b, project_id) ==
    IF project_id \notin DOMAIN b.projects
    THEN BRes("ProjectNotFoundError", b, None)
    ELSE IF b.projects[project_id].uuid \notin DOMAIN b.project_uuid_to_id
    THEN BRes("ProjectNotFoundError", b, None)
    ELSE BRes("ok",
              [b EXCEPT !.project_uuid_to_id = Del(@, b.projects[project_id].uuid),
                        !.projects = Del(@, project_id)],
              None)

\* Board.delete_project: the KeyError of either lookup (the id in projects,
\* the uuid in the index) is raised as ProjectNotFoundError before anything
\* is deleted.  The tasks stored are validated values, so the constructor
\* called by _replace(project_id=None) accepts them.
delete_project(b, project_id) ==
    IF project_id \notin DOMAIN b.projects
    THEN BRes("ProjectNotFoundError", b, None)
    ELSE IF b.projects[project_id].uuid \notin DOMAIN b.project_uuid_to_id
    THEN BRes("ProjectNotFoundError", b, None)
    ELSE BRes("ok",
              [b EXCEPT !.project_uuid_to_id = Del(@, b.projects[project_id].uuid),
                        !.projects = Del(@, project_id),
                        !.tasks = [i \in DOMAIN b.tasks |->
                                     IF b.tasks[i].project_id = project_id
                                     THEN After(b.tasks[i],
                                                ReplaceTask(b.tasks[i], [project_id |-> None]))
                                     ELSE b.tasks[i]]],
              None)

\* update_task storing the new value before the name is checked
update_task_commit_first(b, task_id, kwargs, cur, cfg) ==
    IF "uuid" \in DOMAIN kwargs
    THEN BRes("ValueError", b, None)
    ELSE IF task_id \notin DOMAIN b.tasks
    THEN BRes("TaskNotFoundError", b, None)
    ELSE LET r == ReplaceTask(b.tasks[task_id], with_modified_time(kwargs, cur))
         IN  IF r.kind # "ok" THEN BRes(r.kind, b, None)
             ELSE IF r.task.project_id # None /\ r.task.project_id \notin DOMAIN b.projects
             THEN BRes("ProjectNotFoundError", b, None)
             ELSE IF first_name_match(cfg, r.task.name, incomplete_task_names(b, {task_id}))
             THEN BRes("DuplicateTaskNameError", [b EXCEPT !.tasks[task_id] = r.task], None)
             ELSE BRes("ok", [b EXCEPT !.tasks[task_id] = r.task], None)

\* Board.update_task
update_task(b, task_id, kwargs, cur, cfg) ==
    IF "uuid" \in DOMAIN kwargs
    THEN BRes("ValueError", b, None)
    ELSE IF task_id \notin DOMAIN b.tasks
    THEN BRes("TaskNotFoundError", b, None)
    ELSE LET r == ReplaceTask(b.tasks[task_id], with_modified_time(kwargs, cur))
         IN  IF r.kind # "ok" THEN BRes(r.kind, b, None)
             ELSE IF r.task.project_id # None /\ r.task.project_id \notin DOMAIN b.projects
             THEN BRes("ProjectNotFoundError", b, None)
             ELSE IF first_name_match(cfg, r.task.name, incomplete_task_names(b, {task_id}))
             THEN BRes("DuplicateTaskNameError", b, None)
             ELSE BRes("ok", [b EXCEPT !.tasks[task_id] = r.task], None)

\* Board.delete_task
delete_task(b, task_id) ==
    IF task_id \notin DOMAIN b.tasks
    THEN BRes("TaskNotFoundError", b, None)
    ELSE IF b.tasks[task_id].uuid \notin DOMAIN b.task_uuid_to_id
    THEN BRes("TaskNotFoundError", b, None)
    ELSE BRes("ok",
              [b EXCEPT !.task_uuid_to_id = Del(@, b.tasks[task_id].uuid),
                        !.tasks = Del(@, task_id)],
              None)

\* Board.reset_task
reset_task(b, task_id, cur) ==
    IF task_id \notin DOMAIN b.tasks
    THEN BRes("TaskNotFoundError", b, None)
    ELSE LET r == Reset(b.tasks[task_id], cur)
         IN  IF r.kind # "ok" THEN BRes(r.kind, b, None)
             ELSE BRes("ok", [b EXCEPT !.tasks[task_id] = r.task], None)

\* Board.apply_status_action; it returns the new task
apply_status_action(b, task_id, action, dt, first_dt, cur) ==
    IF task_id \notin DOMAIN b.tasks
    THEN BRes("TaskNotFoundError", b, None)
    ELSE LET r == ApplyStatusAction(b.tasks[task_id], action, dt, first_dt, cur)
         IN  IF r.kind # "ok" THEN BRes(r.kind, b, None)
             ELSE IF r.task.name \in incomplete_task_names(b, {task_id})
             THEN BRes("DuplicateTaskNameError", b, None)
             ELSE BRes("ok", [b EXCEPT !.tasks[task_id] = r.task], r.task)

\* add_blocking_task that stores the blocking task alone
add_blocking_task_forgetful(b, blocking_task_id, blocked_task_id) ==
    IF blocking_task_id \notin DOMAIN b.tasks \/ blocked_task_id \notin DOMAIN b.tasks
    THEN BRes("TaskNotFoundError", b, None)
    ELSE BRes("ok",
              [b EXCEPT !.tasks[blocked_task_id] =
                  After(@, ReplaceTask(@, [blocked_by |-> {blocking_task_id}]))],
              None)

\* Board.add_blocking_task: blocked_by is copied into a new set (an unset or
\* empty blocked_by gives the empty set), the blocking id is added, and the
\* task is replaced by _replace(blocked_by=...)
add_blocking_task(b, blocking_task_id, blocked_task_id) ==
    IF blocking_task_id \notin DOMAIN b.tasks \/ blocked_task_id \notin DOMAIN b.tasks
    THEN BRes("TaskNotFoundError", b, None)
    ELSE LET blocked_task == b.tasks[blocked_task_id]
             blocked_by == (IF blocked_task.blocked_by \in {NoneSet, {}} THEN {}
                            ELSE blocked_task.blocked_by) \cup {blocking_task_id}
         IN  BRes("ok",
                  [b EXCEPT !.tasks[blocked_task_id] =
                      After(blocked_task, ReplaceTask(blocked_task, [blocked_by |-> blocked_by]))],
                  None)

\* dict.get(k, k)
GetOrSame(m, k) == IF k \in DOMAIN m THEN m[k] ELSE k

\* the least of a non-empty set of ids: the maps are walked in the order of
\* their ids
First(ids) == CHOOSE i \in ids : \A j \in ids : i <= j

\* Project.to_dict() with 'uuid' deleted: the unset fields are left out
project_kwargs(p) ==
    [f \in {g \in ProjectFields \ {"uuid"} : g = "name" \/ p[g] # None} |-> p[f]]

\* Task.to_dict() with 'uuid' deleted: the unset fields are left out
task_kwargs(t) ==
    [f \in {g \in TaskFields \ {"uuid"} :
                \/ g = "name"
                \/ g = "blocked_by" /\ t[g] # NoneSet
                \/ g \notin {"name", "blocked_by"} /\ t[g] # None} |-> t[f]]

\* Project._map_project_ids
project_map_project_ids(p, proj_id_map) ==
    IF p.parent = None THEN p
    ELSE [p EXCEPT !.parent = GetOrSame(proj_id_map, p.parent)]

\* Task._map_project_ids
task_map_project_ids(t, proj_id_map) ==
    IF t.project_id = None THEN t
    ELSE [t EXCEPT !.project_id = GetOrSame(proj_id_map, t.project_id)]

\* Task._map_task_ids
task_map_task_ids(t, task_id_map) ==
    [t EXCEPT
        !.blocked_by = IF t.blocked_by \in {NoneSet, {}} THEN t.blocked_by
                       ELSE {GetOrSame(task_id_map, i) : i \in t.blocked_by},
        !.parent = IF t.parent = None THEN None ELSE GetOrSame(task_id_map, t.parent)]

\* the outcome of a loop of update_with_board: the board so far, the id map
\* so far, and "ok" or the exception that ended the loop
Merged(kind, b, id_map) == [kind |-> kind, board |-> b, id_map |-> id_map]

\* update_with_board, the loop over other.projects; todo holds the ids of
\* other still to be visited
RECURSIVE merge_projects(_, _, _, _, _, _)
merge_projects(b, other, todo, proj_id_map, cur, cfg) ==
    IF todo = {} THEN Merged("ok", b, proj_id_map)
    ELSE
    LET other_id == First(todo)
        other_proj == other.projects[other_id]
    IN  IF other_proj.uuid \in DOMAIN b.project_uuid_to_id
        THEN LET this_id == b.project_uuid_to_id[other_proj.uuid]
                 map1 == IF this_id # other_id THEN Put(proj_id_map, other_id, this_id)
                         ELSE proj_id_map
             IN  IF this_id \notin DOMAIN b.projects THEN Merged("KeyError", b, map1)
                 ELSE
                 LET this_proj == b.projects[this_id]
                     r == IF /\ other_proj # this_proj
                             /\ other_proj.modified_time > this_proj.modified_time
                          THEN update_project(b, this_id, project_kwargs(other_proj), cur, cfg)
                          ELSE BRes("ok", b, None)
                 IN  IF r.kind # "ok" THEN Merged(r.kind, r.board, map1)
                     ELSE merge_projects(r.board, other, todo \ {other_id}, map1, cur, cfg)
        ELSE LET r == create_project(b, other_proj, cfg)
             IN  IF r.kind # "ok" THEN Merged(r.kind, r.board, proj_id_map)
                 ELSE merge_projects(r.board, other, todo \ {other_id},
                                     Put(proj_id_map, other_id, r.ret), cur, cfg)

\* update_with_board, the loop over other.tasks
RECURSIVE merge_tasks(_, _, _, _, _, _)
merge_tasks(b, other, todo, task_id_map, cur, cfg) ==
    IF todo = {} THEN Merged("ok", b, task_id_map)
    ELSE
    LET other_id == First(todo)
        other_task == other.tasks[other_id]
    IN  IF other_task.uuid \in DOMAIN b.task_uuid_to_id
        THEN LET this_id == b.task_uuid_to_id[other_task.uuid]
                 map1 == IF this_id # other_id THEN Put(task_id_map, other_id, this_id)
                         ELSE task_id_map
             IN  IF this_id \notin DOMAIN b.tasks THEN Merged("KeyError", b, map1)
                 ELSE
                 LET this_task == b.tasks[this_id]
                     r == IF /\ other_task # this_task
                             /\ other_task.modified_time > this_task.modified_time
                          THEN update_task(b, this_id, task_kwargs(other_task), cur, cfg)
                          ELSE BRes("ok", b, None)
                 IN  IF r.kind # "ok" THEN Merged(r.kind, r.board, map1)
                     ELSE merge_tasks(r.board, other, todo \ {other_id}, map1, cur, cfg)
        ELSE LET r == create_task(b, other_task, cfg)
             IN  IF r.kind # "ok" THEN Merged(r.kind, r.board, task_id_map)
                 ELSE merge_tasks(r.board, other, todo \ {other_id},
                                  Put(task_id_map, other_id, r.ret), cur, cfg)

\* update_with_board, the loop that maps the parent of the projects under
\* proj_id_map.values(), one visit per entry of the map
RECURSIVE remap_projects(_, _, _)
remap_projects(b, todo, proj_id_map) ==
    IF todo = {} THEN b
    ELSE LET k == First(todo)
             proj_id == proj_id_map[k]
         IN  remap_projects(
                 [b EXCEPT !.projects[proj_id] = project_map_project_ids(@, proj_id_map)],
                 todo \ {k}, proj_id_map)

\* update_with_board, the loop that maps project_id, blocked_by and parent of
\* the tasks under task_id_map.values()
RECURSIVE remap_tasks(_, _, _, _)
remap_tasks(b, todo, proj_id_map, task_id_map) ==
    IF todo = {} THEN b
    ELSE LET k == First(todo)
             task_id == task_id_map[k]
         IN  remap_tasks(
                 [b EXCEPT !.tasks[task_id] =
                     task_map_task_ids(task_map_project_ids(@, proj_id_map), task_id_map)],
                 todo \ {k}, proj_id_map, task_id_map)

\* Board.update_with_board after the test of the versions: the two merging
\* loops, then the two remapping loops.  The values the remapping loops
\* rebuild with _replace are stored, validated values whose timestamps do not
\* change.
merge_boards(b, other, cur, cfg) ==
    LET p == merge_projects(b, other, DOMAIN other.projects, <<>>, cur, cfg)
    IN  IF p.kind # "ok" THEN BRes(p.kind, p.board, None)
        ELSE
        LET t == merge_tasks(p.board, other, DOMAIN other.tasks, <<>>, cur, cfg)
        IN  IF t.kind # "ok" THEN BRes(t.kind, t.board, None)
            ELSE
            LET b1 == remap_projects(t.board, DOMAIN p.id_map, p.id_map)
            IN  BRes("ok", remap_tasks(b1, DOMAIN t.id_map, p.id_map, t.id_map), None)

\* update_with_board that merges first and tests the versions afterwards
update_with_board_merge_first(b, other, cur, cfg) ==
    LET r == merge_boards(b, other, cur, cfg)
    IN  IF other.version > b.version THEN BRes("VersionMismatchError", r.board, None)
        ELSE r

\* Board.update_with_board
update_with_board(b, other, cur, cfg) ==
    IF other.version > b.version THEN BRes("VersionMismatchError", b, None)
    ELSE merge_boards(b, other, cur, cfg)

----------------------------------------------------------------------------
(* Board: the state machine *)

\* Board.check_valid_project_ids
check_valid_project_ids(b) ==
    \A i \in DOMAIN b.tasks :
        b.tasks[i].project_id # None => b.tasks[i].project_id \in DOMAIN b.projects

\* the ids of the entities a board starts with: none, or two with a gap
\* between them
StartIdSets == {{}, {0, MaxId}}

StartName(i) == IF i = 0 THEN "a" ELSE "b"

\* Board(name='myboard', projects={...}, tasks={...}): the maps as read from
\* a snapshot written at time 0, in which project i and task i have uuid i
\* and task i belongs to project i.  __post_init__ sets both uuid indices
\* to {}.
SnapshotBoard(ids) ==
    [EmptyBoard EXCEPT
        !.projects = [i \in ids |-> NewProject(StartName(i), i, 0)],
        !.tasks = [i \in ids |-> BoardTask(StartName(i), i, i, None, 0)]]

\* the same maps on a board built from Board(name='myboard') at time 0 by
\* create_project and create_task (and delete_* for the gap): each create
\* registered the uuid under the id it returned
BuiltBoard(ids) ==
    [SnapshotBoard(ids) EXCEPT
        !.project_uuid_to_id = [u \in ids |-> u],
        !.task_uuid_to_id = [u \in ids |-> u]]

\* the same board after task 0 was started and completed at time 0
\* (apply_status_action(0, 'complete') on the board being built, or a
\* snapshot written after it)
WithTaskDone(b) ==
    [b EXCEPT !.tasks[0] = [@ EXCEPT !.first_started_time = 0, !.completed_time = 0]]

\* a call of a Board method: the board before it, the id, entity, keyword
\* arguments or action given, and its outcome
BoardCall(op, pre, id_, arg, res) ==
    [op |-> op, pre |-> pre, id |-> id_, arg |-> arg, kind |-> res.kind, ret |-> res.ret]

BoardInit ==
    /\ now = 0
    /\ task = NoTask
    /\ last = Idle
    /\ hist = NoHist
    /\ config \in [case_sensitive : BOOLEAN]
    /\ source = EmptyBoard
    /\ \E ids \in StartIdSets :
        \/ /\ board = SnapshotBoard(ids)
           /\ blast = [op |-> "construct"]
        \/ /\ board = BuiltBoard(ids)
           /\ blast = [op |-> "build"]
        \/ /\ ids # {}
           /\ board = WithTaskDone(SnapshotBoard(ids))
           /\ blast = [op |-> "construct"]
        \/ /\ ids # {}
           /\ board = WithTaskDone(BuiltBoard(ids))
           /\ blast = [op |-> "build"]
    /\ check_valid_project_ids(board)

\* get_current_time() advances between two calls
BoardTick ==
    /\ now < MaxCalls
    /\ now' = now + 1
    /\ blast' = BoardIdle
    /\ UNCHANGED <<task, last, hist, board, config, source>>

BoardReady == blast.op = "idle"

\* the call op was made at clock reading now with the outcome res
BoardDone(op, id_, arg, res) ==
    /\ blast' = BoardCall(op, board, id_, arg, res)
    /\ board' = res.board
    /\ UNCHANGED <<now, task, last, hist, config, source>>

\* the uuids given to a new entity: the first uuid no stored entity has, and
\* the uuid of the stored entity with the smallest id
uuid_choices(m) ==
    LET used == {m[i].uuid : i \in DOMAIN m}
        fresh == {u \in Uuids : u \notin used /\ \A v \in Uuids : v < u => v \in used}
        held == {m[i].uuid : i \in {j \in DOMAIN m : \A k \in DOMAIN m : j <= k}}
    IN  fresh \cup held

DoCreateProject ==
    /\ BoardReady
    /\ Cardinality(DOMAIN board.projects) <= MaxId
    /\ \E name \in Names, uuid_ \in uuid_choices(board.projects) :
        LET project == NewProject(name, uuid_, now)
        IN  BoardDone("create_project", None, project, create_project(board, project, config))

DoCreateTask ==
    /\ BoardReady
    /\ Cardinality(DOMAIN board.tasks) <= MaxId
    /\ \E name \in Names, uuid_ \in uuid_choices(board.tasks), project_id \in {None, 0, 1} :
        LET t == BoardTask(name, uuid_, project_id, None, now)
        IN  BoardDone("create_task", None, t, create_task(board, t, config))

\* the keyword arguments of the updates of this model: one field each
ProjectUpdates ==
    {[name |-> n] : n \in Names} \cup {[uuid |-> 0], [bogus |-> 0]}

TaskUpdates ==
    {[name |-> n] : n \in Names}
        \cup {[project_id |-> p] : p \in {None, 1}}
        \cup {[uuid |-> 0], [bogus |-> 0], [completed_time |-> 0], [blocked_by |-> {0}]}

DoUpdateProject ==
    /\ BoardReady
    /\ \E project_id \in Ids, kwargs \in ProjectUpdates :
        BoardDone("update_project", project_id, kwargs,
                  update_project(board, project_id, kwargs, now, config))

DoDeleteProject ==
    /\ BoardReady
    /\ \E project_id \in Ids :
        BoardDone("delete_project", project_id, None, delete_project(board, project_id))

DoUpdateTask ==
    /\ BoardReady
    /\ \E task_id \in Ids, kwargs \in TaskUpdates :
        BoardDone("update_task", task_id, kwargs,
                  update_task(board, task_id, kwargs, now, config))

DoDeleteTask ==
    /\ BoardReady
    /\ \E task_id \in Ids :
        BoardDone("delete_task", task_id, None, delete_task(board, task_id))

DoResetTask ==
    /\ BoardReady
    /\ \E task_id \in Ids :
        BoardDone("reset_task", task_id, None, reset_task(board, task_id, now))

\* apply_status_action(task_id, action) with dt and first_dt left to default
DoBoardApplyStatusAction ==
    /\ BoardReady
    /\ \E task_id \in Ids, action \in TaskStatusAction :
        BoardDone("apply_status_action", task_id, action,
                  apply_status_action(board, task_id, action, None, None, now))

DoAddBlockingTask ==
    /\ BoardReady
    /\ \E blocking_task_id \in Ids, blocked_task_id \in Ids :
        BoardDone("add_blocking_task", blocked_task_id, blocking_task_id,
                  add_blocking_task(board, blocking_task_id, blocked_task_id))

\* the boards merged into the board at hand: one project and one task of that
\* project, stored under the same id, with the same uuid and the same name,
\* last modified at time 0 or at the end of the run
OtherBoards ==
    {[EmptyBoard EXCEPT
        !.projects = [i \in {id_} |->
                        [NewProject(name, uuid_, 0) EXCEPT !.modified_time = mt]],
        !.tasks = [i \in {id_} |->
                        [BoardTask(name, uuid_, id_, None, 0) EXCEPT !.modified_time = mt]]] :
        id_ \in {0, 1}, uuid_ \in {0, 1}, name \in {"a", "b"}, mt \in {0, MaxCalls}}

\* a board of a later version.  The field is declared Literal[0], so the
\* constructor yields version 0 only; a later version is one assigned to the
\* field of a constructed board (Board is not frozen).
NewerBoards ==
    {[o EXCEPT !.version = 1] :
        o \in {x \in OtherBoards :
                 /\ 0 \in DOMAIN x.projects
                 /\ x.projects[0].uuid = 1
                 /\ x.projects[0].name = "b"}}

DoUpdateWithBoard ==
    /\ BoardReady
    /\ Cardinality(DOMAIN board.projects) <= MaxId
    /\ Cardinality(DOMAIN board.tasks) <= MaxId
    /\ \E other \in OtherBoards \cup NewerBoards :
        /\ check_valid_project_ids(other)
        /\ BoardDone("update_with_board", None, other,
                     update_with_board(board, other, now, config))

BoardNext ==
    \/ BoardTick
    \/ DoCreateProject
    \/ DoCreateTask
    \/ DoUpdateProject
    \/ DoDeleteProject
    \/ DoUpdateTask
    \/ DoDeleteTask
    \/ DoResetTask
    \/ DoBoardApplyStatusAction
    \/ DoAddBlockingTask
    \/ DoUpdateWithBoard

SpecBoard == BoardInit /\ [][BoardNext]_vars

----------------------------------------------------------------------------
(* What the claims on the Board speak of *)

BPre == blast.pre
BOk == blast.kind = "ok"

\* the maps and the indices of a board
BoardState(b) == <<b.projects, b.tasks, b.project_uuid_to_id, b.task_uuid_to_id>>

\* m2 is m1 with v stored under the new key k
Inserted(m1, m2, k, v) ==
    /\ k \notin DOMAIN m1
    /\ DOMAIN m2 = (DOMAIN m1) \cup {k}
    /\ m2[k] = v
    /\ \A j \in DOMAIN m1 : m2[j] = m1[j]

SmallestFree(m, k) ==
    /\ k \in Nat
    /\ k \notin DOMAIN m
    /\ \A j \in 0..(k - 1) : j \in DOMAIN m

----------------------------------------------------------------------------
(* C13 *)

\* C13: create_project and create_task store the new entity under the
\* smallest non-negative integer that is not a key of the respective map
\* (gaps are filled), return that id, and leave every entry stored before
\* under its old id and unchanged.
C13_CreateUsesSmallestFreeId ==
    /\ (blast.op = "create_project" /\ BOk) =>
        /\ SmallestFree(BPre.projects, blast.ret)
        /\ Inserted(BPre.projects, board.projects, blast.ret, blast.arg)
        /\ board.tasks = BPre.tasks
    /\ (blast.op = "create_task" /\ BOk) =>
        /\ SmallestFree(BPre.tasks, blast.ret)
        /\ Inserted(BPre.tasks, board.tasks, blast.ret, blast.arg)
        /\ board.projects = BPre.projects

\* a task was created into the gap below a larger id in use
C13_Witness ==
    /\ blast.op = "create_task"
    /\ BOk
    /\ blast.ret > 0
    /\ \E j \in DOMAIN BPre.tasks : j > blast.ret

----------------------------------------------------------------------------
(* C14 *)

\* the name matches, under the active matcher, the name of a stored task
\* with completed_time unset
MatchesIncompleteTask(b, name) ==
    \E i \in DOMAIN b.tasks :
        /\ b.tasks[i].completed_time = None
        /\ name_matcher(config, name, b.tasks[i].name)

MatchesProject(b, name) ==
    \E i \in DOMAIN b.projects : name_matcher(config, name, b.projects[i].name)

\* a create call refused for another reason than the name: the uuid is
\* registered, or the project of the task is not on the board
CreateRefusedBefore ==
    blast.kind \in {"DuplicateTaskError", "DuplicateProjectError", "ProjectNotFoundError"}

----------------------------------------------------------------------------
(* C15 *)

\* C15: create_project (create_task) called with an entity whose uuid is
\* that of a project (task) stored on the board raises DuplicateProjectError
\* (DuplicateTaskError) and leaves the maps and the indices of the board
\* unchanged, whatever way the stored entity came to be on the board.
C15_DuplicateUuidRefused ==
    /\ (/\ blast.op = "create_project"
        /\ \E i \in DOMAIN BPre.projects : BPre.projects[i].uuid = blast.arg.uuid) =>
            /\ blast.kind = "DuplicateProjectError"
            /\ BoardState(board) = BoardState(BPre)
    /\ (/\ blast.op = "create_task"
        /\ \E i \in DOMAIN BPre.tasks : BPre.tasks[i].uuid = blast.arg.uuid) =>
            /\ blast.kind = "DuplicateTaskError"
            /\ BoardState(board) = BoardState(BPre)

----------------------------------------------------------------------------
(* C16 *)

\* index holds one entry per entity stored in m, from the uuid of the entity
\* to its id, and nothing else
IndexExact(index, m) ==
    /\ DOMAIN index = {m[i].uuid : i \in DOMAIN m}
    /\ \A i \in DOMAIN m : index[m[i].uuid] = i

\* C16: in every reachable state of a Board, built from empty by create_*
\* calls or constructed directly with non-empty projects/tasks maps, and after
\* any sequence of create_*, delete_*, update_*, apply_status_action,
\* reset_task and update_with_board, the project uuid index and the task uuid
\* index each hold exactly one entry per stored entity, from its uuid to the
\* id it is stored under, and no other entry.
C16_UuidIndexExact ==
    /\ IndexExact(board.project_uuid_to_id, board.projects)
    /\ IndexExact(board.task_uuid_to_id, board.tasks)

----------------------------------------------------------------------------
(* C17 *)

\* the project id is set and is not the id of a project stored on b
NotOnBoard(b, project_id) == project_id # None /\ project_id \notin DOMAIN b.projects

\* C17: after any sequence of create_task, update_task, delete_project,
\* apply_status_action, reset_task and update_with_board (and the other
\* calls) every stored task's project_id is unset or the id of a project
\* stored on the same board; create_task, given a task whose uuid is not
\* registered, and update_task, given project_id for a stored task, raise
\* ProjectNotFoundError when that project_id is not on the board, and then
\* change nothing.
C17_ProjectIdsReferToStoredProjects ==
    /\ \A i \in DOMAIN board.tasks : ~NotOnBoard(board, board.tasks[i].project_id)
    /\ (blast.op = "create_task" /\ NotOnBoard(BPre, blast.arg.project_id)) =>
        /\ ~BOk
        /\ blast.arg.uuid \notin DOMAIN BPre.task_uuid_to_id =>
            blast.kind = "ProjectNotFoundError"
        /\ board = BPre
    /\ (/\ blast.op = "update_task"
        /\ DOMAIN blast.arg = {"project_id"}
        /\ NotOnBoard(BPre, blast.arg.project_id)) =>
        /\ ~BOk
        /\ blast.id \in DOMAIN BPre.tasks => blast.kind = "ProjectNotFoundError"
        /\ board = BPre

\* a merge stored a new task whose project_id was rewritten to the id the
\* receiver gave to the task's project
C17_Witness ==
    /\ blast.op = "update_with_board"
    /\ BOk
    /\ \E i \in (DOMAIN board.tasks) \ (DOMAIN BPre.tasks) :
        /\ board.tasks[i].project_id \in (DOMAIN board.projects) \ (DOMAIN BPre.projects)
        /\ board.tasks[i].project_id \notin DOMAIN blast.arg.projects

----------------------------------------------------------------------------
(* C18 *)

\* the removal of project_id from a board: the project and its index entry
\* are gone, the tasks that referred to it have project_id unset, and all
\* else is as in pre
ProjectRemoved(pre, post, project_id) ==
    /\ post.projects = Del(pre.projects, project_id)
    /\ post.project_uuid_to_id = Del(pre.project_uuid_to_id, pre.projects[project_id].uuid)
    /\ DOMAIN post.tasks = DOMAIN pre.tasks
    /\ \A i \in DOMAIN pre.tasks :
        post.tasks[i] = IF pre.tasks[i].project_id = project_id
                        THEN [pre.tasks[i] EXCEPT !.project_id = None]
                        ELSE pre.tasks[i]
    /\ post.task_uuid_to_id = pre.task_uuid_to_id

\* every create_project that succeeds on b returns id_
NextCreateReturns(b, id_) ==
    \A name \in Names, uuid_ \in Uuids :
        LET r == create_project(b, NewProject(name, uuid_, now), config)
        IN  r.kind = "ok" => r.ret = id_

\* C18: delete_project(id) on a stored project removes the project and its
\* uuid index entry and unsets project_id on exactly the tasks that referred
\* to id, leaving every other task and project unchanged; on an id that is
\* not stored (a second delete of the same id, say) it raises
\* ProjectNotFoundError and changes nothing; and the freed id is reused by the
\* next create_project.
C18_DeleteProjectCascades ==
    blast.op = "delete_project" =>
        IF blast.id \in DOMAIN BPre.projects
        THEN /\ BOk
             /\ ProjectRemoved(BPre, board, blast.id)
             /\ NextCreateReturns(board, blast.id)
        ELSE /\ blast.kind = "ProjectNotFoundError"
             /\ board = BPre

----------------------------------------------------------------------------
(* C19 *)

\* C19: delete_task(id) removes only the task stored under id and its uuid
\* index entry: every other task is left exactly as it was, a blocked_by set
\* or parent field that contains id included; on an id that is not stored it
\* raises TaskNotFoundError and changes nothing.
C19_DeleteTaskRemovesOnlyTask ==
    blast.op = "delete_task" =>
        IF blast.id \in DOMAIN BPre.tasks
        THEN /\ BOk
             /\ board.tasks = Del(BPre.tasks, blast.id)
             /\ board.task_uuid_to_id = Del(BPre.task_uuid_to_id, BPre.tasks[blast.id].uuid)
             /\ board.projects = BPre.projects
             /\ board.project_uuid_to_id = BPre.project_uuid_to_id
        ELSE /\ blast.kind = "TaskNotFoundError"
             /\ board = BPre

----------------------------------------------------------------------------
(* C20 *)

\* new is old with the fields of kwargs set, modified_time aside
Updated(old, new, kwargs, fields) ==
    \A f \in fields :
        IF f \in DOMAIN kwargs THEN new[f] = kwargs[f]
        ELSE f # "modified_time" => new[f] = old[f]

\* m2 is m1 but for the entry under k
OnlyChanged(m1, m2, k) ==
    /\ DOMAIN m2 = DOMAIN m1
    /\ \A j \in (DOMAIN m1) \ {k} : m2[j] = m1[j]

\* C20: update_project and update_task validate before committing: when the
\* call fails (unknown id, uuid among the fields, unknown field, duplicate
\* name among the projects / the incomplete tasks, project_id not on the
\* board, inconsistent timestamps) the maps and the indices of the board are
\* exactly as before the call; when it succeeds only the entity under the
\* given id is replaced, with the given fields changed and every other field
\* but modified_time kept.
C20_UpdateCommitsOnlyWhenValid ==
    /\ blast.op = "update_project" =>
        IF BOk
        THEN /\ blast.id \in DOMAIN BPre.projects
             /\ OnlyChanged(BPre.projects, board.projects, blast.id)
             /\ Updated(BPre.projects[blast.id], board.projects[blast.id],
                        blast.arg, ProjectFields)
             /\ board = [BPre EXCEPT !.projects = board.projects]
        ELSE /\ BoardState(board) = BoardState(BPre)
             /\ blast.kind \in {"UUIDImmutableError", "ProjectNotFoundError",
                                "DuplicateProjectNameError", "TypeError"}
    /\ blast.op = "update_task" =>
        IF BOk
        THEN /\ blast.id \in DOMAIN BPre.tasks
             /\ OnlyChanged(BPre.tasks, board.tasks, blast.id)
             /\ Updated(BPre.tasks[blast.id], board.tasks[blast.id], blast.arg, TaskFields)
             /\ board = [BPre EXCEPT !.tasks = board.tasks]
        ELSE /\ BoardState(board) = BoardState(BPre)
             /\ blast.kind \in {"ValueError", "TaskNotFoundError", "TypeError",
                                "ValidationError", "ProjectNotFoundError",
                                "DuplicateTaskNameError"}

\* an update of a stored task was refused for its name, which matches that
\* of another incomplete task, after the new value had been built
C20_Witness ==
    /\ blast.op = "update_task"
    /\ blast.kind = "DuplicateTaskNameError"
    /\ blast.id \in DOMAIN BPre.tasks
    /\ DOMAIN blast.arg = {"name"}
    /\ blast.arg.name # BPre.tasks[blast.id].name
    /\ board = BPre

----------------------------------------------------------------------------
(* C21: every Board operation that replaces a stored task or project by a
   value with different content (update_project, update_task,
   apply_status_action, reset_task, add_blocking_task, and delete_project's
   clearing of project_id) stores a value whose modified_time is the time of
   that operation: no stored entity changes while its modified_time stays
   the same. *)
Replacing ==
    {"update_project", "update_task", "apply_status_action", "reset_task",
     "add_blocking_task", "delete_project"}

C21_ReplacementRefreshesModifiedTime ==
    blast.op \in Replacing =>
        /\ \A i \in (DOMAIN BPre.tasks) \cap (DOMAIN board.tasks) :
              board.tasks[i] # BPre.tasks[i] => board.tasks[i].modified_time = now
        /\ \A i \in (DOMAIN BPre.projects) \cap (DOMAIN board.projects) :
              board.projects[i] # BPre.projects[i] => board.projects[i].modified_time = now

----------------------------------------------------------------------------
(* C22: add_blocking_task(blocking_id, blocked_id) raises TaskNotFoundError
   and leaves the board as it was if either id is not a stored task;
   otherwise the blocked task's blocked_by becomes its old set (empty if
   unset) plus blocking_id, its other fields and every other task, the
   projects and the indices stay as they were.  BPre holds the task value
   stored before the call, which the call copies and does not change. *)
OldBlockedBy(t) == IF t.blocked_by = NoneSet THEN {} ELSE t.blocked_by

C22_AddBlockingTaskInsertsId ==
    blast.op = "add_blocking_task" =>
        LET blocked == blast.id
            blocking == blast.arg
        IN  IF blocking \notin DOMAIN BPre.tasks \/ blocked \notin DOMAIN BPre.tasks
            THEN blast.kind = "TaskNotFoundError" /\ board = BPre
            ELSE /\ BOk
                 /\ DOMAIN board.tasks = DOMAIN BPre.tasks
                 /\ board.tasks[blocked].blocked_by
                        = OldBlockedBy(BPre.tasks[blocked]) \cup {blocking}
                 /\ \A f \in TaskFields \ {"blocked_by"} :
                        board.tasks[blocked][f] = BPre.tasks[blocked][f]
                 /\ \A i \in (DOMAIN BPre.tasks) \ {blocked} : board.tasks[i] = BPre.tasks[i]
                 /\ board = [BPre EXCEPT !.tasks = board.tasks]

\* a second blocking task was added to a task that had one
C22_Witness ==
    /\ blast.op = "add_blocking_task"
    /\ BOk
    /\ OldBlockedBy(BPre.tasks[blast.id]) # {}
    /\ blast.arg \notin BPre.tasks[blast.id].blocked_by
    /\ Cardinality(board.tasks[blast.id].blocked_by) = 2

----------------------------------------------------------------------------
(* C23: Board.apply_status_action(id, action) commits only on success.  If
   the id is unknown or the task's transition fails, or if the transition
   would leave the task incomplete with a name that matches, under the name
   matcher of the configuration, the name of another incomplete task, the
   call raises (DuplicateTaskNameError in the last case) and the board is
   unchanged; on success tasks holds the returned task under id and nothing
   else changes. *)
Transition == ApplyStatusAction(BPre.tasks[blast.id], blast.arg, None, None, now)

C23_ApplyStatusActionCommitsOnSuccess ==
    blast.op = "apply_status_action" =>
        /\ ~BOk => board = BPre
        /\ blast.id \notin DOMAIN BPre.tasks => ~BOk
        /\ blast.id \in DOMAIN BPre.tasks =>
            /\ Transition.kind # "ok" => ~BOk
            /\ (/\ Transition.kind = "ok"
                /\ Transition.task.completed_time = None
                /\ first_name_match(config, Transition.task.name,
                                    incomplete_task_names(BPre, {blast.id})))
                  => blast.kind = "DuplicateTaskNameError"
            /\ BOk =>
                /\ blast.ret = Transition.task
                /\ board = [BPre EXCEPT !.tasks[blast.id] = blast.ret]

----------------------------------------------------------------------------
(* Board: lookup by name.  get_project_id_by_name and get_task_id_by_name are
   functions of the maps, the name and the matcher; SpecLookup applies them
   to the boards a snapshot can hold. *)

\* the names stored on the boards of SpecLookup and the names asked for:
\* "a" and "A" differ in case only, "abc" is a prefix of "abcd"
StoredNames == {"a", "A", "abcd"}
AskedNames == {"a", "A", "abc", "abcd"}

\* the characters of a name, lowered (str.strip().lower() on names without
\* surrounding whitespace)
LowerChars(s) ==
    CASE s = "abc" -> <<"a", "b", "c">>
      [] s = "abcd" -> <<"a", "b", "c", "d">>
      [] OTHER -> <<Lower(s)>>

\* utils.fuzzy_match_names
fuzzy_match_names(name1, name2) ==
    LET s1 == LowerChars(name1)
        s2 == LowerChars(name2)
    IN  \/ s1 = s2
        \/ /\ Len(s1) >= 3
           /\ Len(s2) >= Len(s1)
           /\ SubSeq(s2, 1, Len(s1)) = s1

\* exact_match, the default matcher of the lookups
exact_match(s1, s2) == s1 = s2

\* the matchers given to the lookups
Matchers == {"exact_match", "case_insensitive_match", "fuzzy_match_names"}

\* matcher(name, stored)
Matches(matcher, s1, s2) ==
    CASE matcher = "exact_match" -> exact_match(s1, s2)
      [] matcher = "case_insensitive_match" -> case_insensitive_match(s1, s2)
      [] matcher = "fuzzy_match_names" -> fuzzy_match_names(s1, s2)

\* a filter that keeps every matching id, exact or not
filter_id_matches_keep_all(matched, exact) == matched

\* Board._filter_id_matches on the pairs (id, exact) of the ids in matched:
\* the exact ones if there is one, else all
filter_id_matches(matched, exact) == IF exact # {} THEN exact ELSE matched

\* the orders in which a dict with the keys ids may be walked (the order in
\* which the keys were inserted)
Orders(ids) ==
    {o \in [1..Cardinality(ids) -> ids] : \A i \in ids : \E k \in DOMAIN o : o[k] = i}

\* list[0] of the ids in the set, listed in the order of the dict
FirstIn(order, ids) ==
    order[CHOOSE k \in DOMAIN order :
            /\ order[k] \in ids
            /\ \A j \in 1..(k - 1) : order[j] \notin ids]

\* Board.get_project_id_by_name
get_project_id_by_name(b, name, matcher) ==
    LET matched == {i \in DOMAIN b.projects : Matches(matcher, name, b.projects[i].name)}
        exact == {i \in matched : name = b.projects[i].name}
        ids == filter_id_matches(matched, exact)
    IN  IF ids # {}
        THEN IF Cardinality(ids) > 1 THEN BRes("AmbiguousProjectNameError", b, None)
             ELSE BRes("ok", b, CHOOSE i \in ids : TRUE)
        ELSE BRes("ok", b, None)

\* _get_id of get_task_id_by_name
get_id(b, ids) ==
    IF Cardinality(ids) > 1 THEN BRes("AmbiguousTaskNameError", b, None)
    ELSE BRes("ok", b, CHOOSE i \in ids : TRUE)

\* Board.get_task_id_by_name; order is the order of the dict tasks
get_task_id_by_name(b, name, matcher, order) ==
    LET matched == {i \in DOMAIN b.tasks : Matches(matcher, name, b.tasks[i].name)}
        incomplete == {i \in matched : b.tasks[i].completed_time = None}
        complete == matched \ incomplete
        exact == {i \in matched : name = b.tasks[i].name}
        incomplete_ids == filter_id_matches(incomplete, incomplete \cap exact)
        complete_ids == filter_id_matches(complete, complete \cap exact)
    IN  IF incomplete \cap exact # {} THEN BRes("ok", b, FirstIn(order, incomplete_ids))
        ELSE IF complete \cap exact # {} THEN get_id(b, complete_ids)
        ELSE IF incomplete_ids # {} THEN get_id(b, incomplete_ids)
        ELSE IF complete_ids # {} THEN get_id(b, complete_ids)
        ELSE BRes("ok", b, None)

\* Board(name='myboard', projects={...}, tasks={...}) with project i and task
\* i of the same name under the ids given; the tasks in done are complete
LookupBoard(names, done) ==
    [EmptyBoard EXCEPT
        !.projects = [i \in DOMAIN names |-> NewProject(names[i], i, 0)],
        !.tasks = [i \in DOMAIN names |->
                      IF i \in done
                      THEN [BoardTask(names[i], i, None, None, 0) EXCEPT
                               !.first_started_time = 0, !.completed_time = 0]
                      ELSE BoardTask(names[i], i, None, None, 0)]]

LookupInit ==
    /\ now = 0
    /\ task = NoTask
    /\ last = Idle
    /\ hist = NoHist
    /\ config = DefaultConfig
    /\ source = EmptyBoard
    /\ blast = [op |-> "construct"]
    /\ \E ids \in SUBSET Ids :
        \E names \in [ids -> StoredNames], done \in SUBSET ids :
            board = LookupBoard(names, done)

\* a lookup on the board as constructed (a lookup changes nothing, so one
\* after another finds what the first would): the name and the matcher
\* given, and the outcome
LookupDone(op, name, matcher, res) ==
    /\ blast.op = "construct"
    /\ blast' = BoardCall(op, board, None, [name |-> name, matcher |-> matcher], res)
    /\ UNCHANGED <<now, task, last, hist, board, config, source>>

DoGetProjectIdByName ==
    \E name \in AskedNames, matcher \in Matchers :
        LookupDone("get_project_id_by_name", name, matcher,
                   get_project_id_by_name(board, name, matcher))

DoGetTaskIdByName ==
    \E name \in AskedNames, matcher \in Matchers, order \in Orders(DOMAIN board.tasks) :
        LookupDone("get_task_id_by_name", name, matcher,
                   get_task_id_by_name(board, name, matcher, order))

LookupNext ==
    \/ DoGetProjectIdByName
    \/ DoGetTaskIdByName

SpecLookup == LookupInit /\ [][LookupNext]_vars

----------------------------------------------------------------------------
(* What the claims on the lookups speak of: the stored entities the matcher
   matches with the name asked for, split by exactness and completion. *)
Asked == blast.arg.name

MatchedProjects ==
    {i \in DOMAIN BPre.projects : Matches(blast.arg.matcher, Asked, BPre.projects[i].name)}

MatchedTasks ==
    {i \in DOMAIN BPre.tasks : Matches(blast.arg.matcher, Asked, BPre.tasks[i].name)}

ExactProjects == {i \in MatchedProjects : BPre.projects[i].name = Asked}
ExactTasks == {i \in MatchedTasks : BPre.tasks[i].name = Asked}
IncompleteTasks == {i \in MatchedTasks : BPre.tasks[i].completed_time = None}

\* the highest-ranked class of matching projects that is not empty
TopProjects == IF ExactProjects # {} THEN ExactProjects ELSE MatchedProjects

\* the highest-ranked class of matching tasks that is not empty:
\* exact-incomplete, exact-complete, matcher-only incomplete, matcher-only
\* complete
TopTasks ==
    IF ExactTasks \cap IncompleteTasks # {} THEN ExactTasks \cap IncompleteTasks
    ELSE IF ExactTasks # {} THEN ExactTasks
    ELSE IF IncompleteTasks # {} THEN IncompleteTasks
    ELSE MatchedTasks

Ranked(top, matched) ==
    /\ board = BPre
    /\ (BOk /\ blast.ret # None) => blast.ret \in top
    /\ Cardinality(top) = 1 => (BOk /\ blast.ret \in top)
    /\ matched = {} <=> (BOk /\ blast.ret = None)

(* C24: name lookup ranks the candidates: an exact match outranks a match
   found only through the matcher and, among tasks of the same exactness, an
   incomplete task outranks a completed one.  An id returned is of the
   highest-ranked class that is not empty, a single candidate of that class
   is returned, and the result is None exactly when nothing matches. *)
C24_LookupRanksCandidates ==
    /\ blast.op = "get_project_id_by_name" => Ranked(TopProjects, MatchedProjects)
    /\ blast.op = "get_task_id_by_name" => Ranked(TopTasks, MatchedTasks)

\* a completed task of exactly the name asked for was preferred to an
\* incomplete task that only the matcher matches
C24_Witness ==
    /\ blast.op = "get_task_id_by_name"
    /\ BOk
    /\ blast.ret \in ExactTasks \ IncompleteTasks
    /\ IncompleteTasks # {}
    /\ MatchedTasks \ (ExactTasks \cup IncompleteTasks) # {}

(* C25: whenever the highest-ranked class of matches that is not empty holds
   more than one entity, get_task_id_by_name raises AmbiguousTaskNameError and
   get_project_id_by_name raises AmbiguousProjectNameError; neither returns
   one of several equally ranked candidates, several incomplete tasks of
   exactly the name asked for included. *)
C25_AmbiguousLookupRaises ==
    /\ (blast.op = "get_project_id_by_name" /\ Cardinality(TopProjects) > 1)
          => blast.kind = "AmbiguousProjectNameError"
    /\ (blast.op = "get_task_id_by_name" /\ Cardinality(TopTasks) > 1)
          => blast.kind = "AmbiguousTaskNameError"

----------------------------------------------------------------------------
(* C26: update_with_board(other) with other.version greater than the
   version of the receiver raises VersionMismatchError before anything is
   touched: projects, tasks, both uuid indices and the metadata of the
   receiver are as before the call. *)
C26_NewerVersionRefused ==
    (blast.op = "update_with_board" /\ blast.arg.version > BPre.version) =>
        /\ blast.kind = "VersionMismatchError"
        /\ board = BPre

\* a board of a later version was refused whose project and task the
\* receiver does not hold
C26_Witness ==
    /\ blast.op = "update_with_board"
    /\ blast.arg.version > BPre.version
    /\ blast.kind = "VersionMismatchError"
    /\ \A i \in DOMAIN blast.arg.projects :
          blast.arg.projects[i].uuid \notin DOMAIN BPre.project_uuid_to_id
    /\ board = BPre

----------------------------------------------------------------------------
(* Board: merging.  SpecMerge holds two boards, board and source, with
   versions of the same entities: the project and the task "a" (uuid 0) and,
   on boards that hold both, the project and the task "b" (uuid 1).  The
   boards are merged into one another by update_with_board. *)

\* the id under which the entity with uuid u is stored: the order in which
\* the two entities were created
IdOf(swap, u) == IF swap THEN 1 - u ELSE u

\* how a board of SpecMerge came to be:
\*   both     it holds the entities "b" too
\*   pswap    project "b" was created before project "a"
\*   tswap    task "b" was created before task "a"
\*   pid      the project of task "a"
\*   ref      project "b" has project "a" as parent, task "b" has task "a"
\*            as parent and in blocked_by
\*   done     task "a" was started and completed at time 0
\*   mt       when project "a" and task "a" were last modified
\*   indexed  built by create_* calls (the uuid indices hold every entity),
\*            or constructed from the maps of a snapshot (indices empty)
MergeShapes ==
    {h \in [both : BOOLEAN, pswap : BOOLEAN, tswap : BOOLEAN,
            pid : {"none", "a", "b"}, ref : BOOLEAN, done : BOOLEAN,
            mt : {0, 1}, indexed : BOOLEAN] :
        ~h.both => (~h.pswap /\ ~h.tswap /\ ~h.ref /\ h.pid # "b")}

\* the board of the shape h
MergeBoard(h) ==
    LET pa == IdOf(h.pswap, 0)
        pb == IdOf(h.pswap, 1)
        ta == IdOf(h.tswap, 0)
        tb == IdOf(h.tswap, 1)
        project_a == [NewProject("a", 0, 0) EXCEPT !.modified_time = h.mt]
        project_b == [NewProject("b", 1, 0) EXCEPT !.parent = IF h.ref THEN pa ELSE None]
        project_id == CASE h.pid = "none" -> None [] h.pid = "a" -> pa [] h.pid = "b" -> pb
        task_a == [BoardTask("a", 0, project_id, None, 0) EXCEPT
                      !.modified_time = h.mt,
                      !.first_started_time = IF h.done THEN 0 ELSE None,
                      !.completed_time = IF h.done THEN 0 ELSE None]
        task_b == BoardTask("b", 1, None, IF h.ref THEN ta ELSE None, 0)
        pids == IF h.both THEN {pa, pb} ELSE {pa}
        tids == IF h.both THEN {ta, tb} ELSE {ta}
    IN  [EmptyBoard EXCEPT
            !.projects = [i \in pids |-> IF i = pa THEN project_a ELSE project_b],
            !.tasks = [i \in tids |-> IF i = ta THEN task_a ELSE task_b],
            !.project_uuid_to_id =
                IF h.indexed THEN [u \in {IdOf(h.pswap, i) : i \in pids} |-> IdOf(h.pswap, u)]
                ELSE <<>>,
            !.task_uuid_to_id =
                IF h.indexed THEN [u \in {IdOf(h.tswap, i) : i \in tids} |-> IdOf(h.tswap, u)]
                ELSE <<>>]

\* the receiver was built with "a" first, or read from a snapshot; the
\* source was built in either order
MergeInit ==
    /\ now = 1
    /\ task = NoTask
    /\ last = Idle
    /\ hist = NoHist
    /\ config = DefaultConfig
    /\ blast = BoardIdle
    /\ \E h \in MergeShapes :
        /\ ~h.pswap /\ ~h.tswap
        /\ board = MergeBoard(h)
    /\ \E h \in MergeShapes :
        /\ h.indexed
        /\ source = MergeBoard(h)
    /\ check_valid_project_ids(board)
    /\ check_valid_project_ids(source)

\* get_current_time() advances between two merges
MergeTick ==
    /\ now <= MaxCalls
    /\ blast.op # "idle"
    /\ now' = now + 1
    /\ blast' = BoardIdle
    /\ UNCHANGED <<task, last, hist, board, config, source>>

MergeReady == blast.op = "idle" /\ now <= MaxCalls

\* a merge as hist.ops records it: which board received which, and the
\* receiver as it was before
Merge(op, pre) == [op |-> op, pre |-> pre]

\* board.update_with_board(source)
DoMergeSource ==
    /\ MergeReady
    /\ LET res == update_with_board(board, source, now, config)
       IN  /\ blast' = BoardCall("update_with_board", board, None, source, res)
           /\ board' = res.board
    /\ hist' = [hist EXCEPT !.ops = Append(@, Merge("source", board))]
    /\ UNCHANGED <<now, task, last, config, source>>

\* source.update_with_board(board)
DoMergeBack ==
    /\ MergeReady
    /\ LET res == update_with_board(source, board, now, config)
       IN  /\ blast' = BoardCall("update_with_board", source, None, board, res)
           /\ source' = res.board
    /\ hist' = [hist EXCEPT !.ops = Append(@, Merge("back", source))]
    /\ UNCHANGED <<now, task, last, config, board>>

\* board.update_with_board(clone), clone an exact copy of board
DoMergeClone ==
    /\ MergeReady
    /\ LET res == update_with_board(board, board, now, config)
       IN  /\ blast' = BoardCall("update_with_board", board, None, board, res)
           /\ board' = res.board
    /\ hist' = [hist EXCEPT !.ops = Append(@, Merge("clone", board))]
    /\ UNCHANGED <<now, task, last, config, source>>

MergeNext ==
    \/ MergeTick
    \/ DoMergeSource
    \/ DoMergeBack
    \/ DoMergeClone

SpecMerge == MergeInit /\ [][MergeNext]_vars

----------------------------------------------------------------------------
(* What the claims on the merge speak of *)

\* the board that received the last merge, as the merge left it, and the
\* board that was merged into it
LastMerge == hist.ops[Len(hist.ops)]
Receiver == IF LastMerge.op = "back" THEN source ELSE board
Incoming == blast.arg
Merging == blast.op = "update_with_board" /\ hist.ops # <<>>

\* the pairs <<i, j>>: the receiver held under i, before the merge, an entity
\* with the uuid of the entity the incoming board holds under j
SameUuid(this, that) ==
    {ij \in (DOMAIN this) \X (DOMAIN that) : this[ij[1]].uuid = that[ij[2]].uuid}

\* the incoming version does not win: it is not strictly later
Loses(this, that, ij) == that[ij[2]].modified_time <= this[ij[1]].modified_time

(* C27: last-writer-wins, losing side.  Every project or task whose uuid is
   on both boards and whose incoming modified_time is not strictly later
   than the receiver's is left by update_with_board exactly as it was, in
   every field, project_id, parent and blocked_by included, also when the
   two boards store it under different ids. *)
C27_LoserLeavesReceiverEntity ==
    Merging =>
        /\ \A ij \in SameUuid(BPre.projects, Incoming.projects) :
              Loses(BPre.projects, Incoming.projects, ij) =>
                  /\ ij[1] \in DOMAIN Receiver.projects
                  /\ Receiver.projects[ij[1]] = BPre.projects[ij[1]]
        /\ \A ij \in SameUuid(BPre.tasks, Incoming.tasks) :
              Loses(BPre.tasks, Incoming.tasks, ij) =>
                  /\ ij[1] \in DOMAIN Receiver.tasks
                  /\ Receiver.tasks[ij[1]] = BPre.tasks[ij[1]]

----------------------------------------------------------------------------
\* the incoming version wins: different content, strictly later
Wins(this, that, ij) ==
    /\ that[ij[2]] # this[ij[1]]
    /\ that[ij[2]].modified_time > this[ij[1]].modified_time

\* the id under which the receiver holds, after the merge, the entity the
\* incoming board holds under j
Rewritten(mine, theirs, j) ==
    IF j \in DOMAIN theirs /\ \E i \in DOMAIN mine : mine[i].uuid = theirs[j].uuid
    THEN CHOOSE i \in DOMAIN mine : mine[i].uuid = theirs[j].uuid
    ELSE j

\* a project and a task of the board theirs with their id references
\* rewritten into the id space of the board mine
RewriteProject(p, mine, theirs) ==
    [p EXCEPT !.parent =
        IF @ = None THEN None ELSE Rewritten(mine.projects, theirs.projects, @)]

RewriteTask(t, mine, theirs) ==
    [t EXCEPT
        !.project_id =
            IF @ = None THEN None ELSE Rewritten(mine.projects, theirs.projects, @),
        !.parent =
            IF @ = None THEN None ELSE Rewritten(mine.tasks, theirs.tasks, @),
        !.blocked_by =
            IF @ = NoneSet THEN NoneSet
            ELSE {Rewritten(mine.tasks, theirs.tasks, j) : j \in @}]

\* the incoming project and task in the id space of the receiver
RewrittenProject(p) == RewriteProject(p, Receiver, Incoming)
RewrittenTask(t) == RewriteTask(t, Receiver, Incoming)

(* C28: last-writer-wins, winning side.  When an incoming entity has the
   uuid of an entity of the receiver, different content and a strictly later
   modified_time, the receiver's entity after update_with_board equals the
   incoming one field for field, apart from id references rewritten into the
   id space of the receiver, and carries the incoming modified_time: a field
   unset in the incoming version is unset in the result. *)
C28_WinnerReplacesWholeEntity ==
    Merging =>
        /\ \A ij \in SameUuid(BPre.projects, Incoming.projects) :
              Wins(BPre.projects, Incoming.projects, ij) =>
                  /\ ij[1] \in DOMAIN Receiver.projects
                  /\ Receiver.projects[ij[1]] = RewrittenProject(Incoming.projects[ij[2]])
        /\ \A ij \in SameUuid(BPre.tasks, Incoming.tasks) :
              Wins(BPre.tasks, Incoming.tasks, ij) =>
                  /\ ij[1] \in DOMAIN Receiver.tasks
                  /\ Receiver.tasks[ij[1]] = RewrittenTask(Incoming.tasks[ij[2]])

----------------------------------------------------------------------------
\* the fields of a Board that are neither projects nor tasks nor an index
Metadata(b) == <<b.name, b.description, b.created_time, b.version>>

\* the last merge was board.update_with_board(exact copy of board)
MergedClone == Merging /\ LastMerge.op = "clone"

(* C29: merge idempotence.  For any valid board X, built by create_* calls or
   constructed from the maps of a snapshot, X.update_with_board(exact clone
   of X) completes without error and leaves the projects, the tasks and the
   metadata of X unchanged, however often the merge is repeated. *)
C29_CloneMergeChangesNothing ==
    MergedClone =>
        /\ BOk
        /\ board.projects = BPre.projects
        /\ board.tasks = BPre.tasks
        /\ Metadata(board) = Metadata(BPre)

----------------------------------------------------------------------------
\* the version under j is strictly later than the version under i
Later(this, that, ij) == that[ij[2]].modified_time > this[ij[1]].modified_time

\* board.update_with_board(source) was followed by
\* source.update_with_board(board)
MergedBothWays ==
    /\ Merging
    /\ Len(hist.ops) >= 2
    /\ LastMerge.op = "back"
    /\ hist.ops[Len(hist.ops) - 1].op = "source"

\* board A as it was before the first of the two merges
BeforeBoth == hist.ops[Len(hist.ops) - 1].pre

(* C30: merge convergence.  Board A holds an entity with uuid U and
   modified_time T1, board B an entity with the same uuid and modified_time
   T2 > T1.  A.update_with_board(B) makes A's entity for U equal to B's
   version, and a following B.update_with_board(A) leaves B's entity as it
   was, so that both boards end with the newer version of U (ids are
   compared in the id space of the receiver). *)
C30_MergeConverges ==
    /\ (Merging /\ LastMerge.op = "source") =>
          /\ \A ij \in SameUuid(BPre.projects, source.projects) :
                Later(BPre.projects, source.projects, ij) =>
                    /\ ij[1] \in DOMAIN board.projects
                    /\ board.projects[ij[1]]
                          = RewriteProject(source.projects[ij[2]], board, source)
          /\ \A ij \in SameUuid(BPre.tasks, source.tasks) :
                Later(BPre.tasks, source.tasks, ij) =>
                    /\ ij[1] \in DOMAIN board.tasks
                    /\ board.tasks[ij[1]] = RewriteTask(source.tasks[ij[2]], board, source)
    /\ MergedBothWays =>
          /\ \A ij \in SameUuid(BeforeBoth.projects, BPre.projects) :
                Later(BeforeBoth.projects, BPre.projects, ij) =>
                    /\ ij[2] \in DOMAIN source.projects
                    /\ source.projects[ij[2]] = BPre.projects[ij[2]]
                    /\ ij[1] \in DOMAIN board.projects
                    /\ board.projects[ij[1]]
                          = RewriteProject(source.projects[ij[2]], board, source)
          /\ \A ij \in SameUuid(BeforeBoth.tasks, BPre.tasks) :
                Later(BeforeBoth.tasks, BPre.tasks, ij) =>
                    /\ ij[2] \in DOMAIN source.tasks
                    /\ source.tasks[ij[2]] = BPre.tasks[ij[2]]
                    /\ ij[1] \in DOMAIN board.tasks
                    /\ board.tasks[ij[1]] = RewriteTask(source.tasks[ij[2]], board, source)

----------------------------------------------------------------------------
\* the uuids on a map of projects or tasks
StoredUuids(m) == {m[i].uuid : i \in DOMAIN m}

\* the merge took the incoming entity under j: it created it, or it replaced
\* the receiver's version of it
TakenFrom(this, that, j) ==
    \/ that[j].uuid \notin StoredUuids(this)
    \/ \E i \in DOMAIN this : that[j].uuid = this[i].uuid /\ Wins(this, that, <<i, j>>)

\* the ids under which the receiver holds, after the merge, the incoming
\* entity under j
HeldAs(mine, theirs, j) == {i \in DOMAIN mine : mine[i].uuid = theirs[j].uuid}

\* the id mine_ref denotes on the map mine the entity that theirs_ref
\* denotes on the map theirs (an unset incoming reference denotes nothing)
SameEntity(mine, mine_ref, theirs, theirs_ref) ==
    theirs_ref \in DOMAIN theirs =>
        /\ mine_ref \in DOMAIN mine
        /\ mine[mine_ref].uuid = theirs[theirs_ref].uuid

(* C31: reference remapping in merge.  After a successful
   update_with_board(other), every task the merge created or replaced from
   other has project_id, parent and blocked_by denoting, in the receiver,
   the entities with the uuids these fields denoted in other, and every
   project created or replaced has such a parent, also when the entity is
   stored under the same id on both boards. *)
C31_MergeRemapsReferences ==
    (Merging /\ BOk) =>
        /\ \A j \in DOMAIN Incoming.projects :
              TakenFrom(BPre.projects, Incoming.projects, j) =>
                  \A i \in HeldAs(Receiver.projects, Incoming.projects, j) :
                      SameEntity(Receiver.projects, Receiver.projects[i].parent,
                                 Incoming.projects, Incoming.projects[j].parent)
        /\ \A j \in DOMAIN Incoming.tasks :
              TakenFrom(BPre.tasks, Incoming.tasks, j) =>
                  \A i \in HeldAs(Receiver.tasks, Incoming.tasks, j) :
                      /\ SameEntity(Receiver.projects, Receiver.tasks[i].project_id,
                                    Incoming.projects, Incoming.tasks[j].project_id)
                      /\ SameEntity(Receiver.tasks, Receiver.tasks[i].parent,
                                    Incoming.tasks, Incoming.tasks[j].parent)
                      /\ \A r \in Incoming.tasks[j].blocked_by :
                            r \in DOMAIN Incoming.tasks =>
                                \E q \in Receiver.tasks[i].blocked_by :
                                    SameEntity(Receiver.tasks, q, Incoming.tasks, r)

----------------------------------------------------------------------------
(* Board: the uuid allocator

   new_project_uuid and new_task_uuid draw uuid.uuid4() in a while loop; the
   specification SpecUuid takes one step per pass of the loop.  uuid4 may
   return any uuid, registered on the board or not. *)

\* the name of the entity with uuid u on the boards of this section
UuidName(u) == <<"a", "b", "c", "d", "e">>[u + 1]

\* a board holding the projects and the tasks with the uuids given, each
\* under the id of its uuid: built by create_* calls (indexed) or
\* constructed from the maps of a snapshot
UuidBoard(project_uuids, task_uuids, indexed) ==
    [EmptyBoard EXCEPT
        !.projects = [i \in project_uuids |-> NewProject(UuidName(i), i, 0)],
        !.tasks = [i \in task_uuids |-> BoardTask(UuidName(i), i, None, None, 0)],
        !.project_uuid_to_id = IF indexed THEN [u \in project_uuids |-> u] ELSE <<>>,
        !.task_uuid_to_id = IF indexed THEN [u \in task_uuids |-> u] ELSE <<>>]

UuidInit ==
    /\ now = 0
    /\ task = NoTask
    /\ last = Idle
    /\ hist = NoHist
    /\ config = DefaultConfig
    /\ source = EmptyBoard
    /\ blast = BoardIdle
    /\ \E project_uuids \in SUBSET Uuids, task_uuids \in SUBSET Uuids, indexed \in BOOLEAN :
          board = UuidBoard(project_uuids, task_uuids, indexed)

\* one pass of `while (uuid_ := uuid.uuid4()) not in index: pass`, followed
\* by `return uuid_` when the loop is left: the pass draws uuid_, stays in
\* the loop if uuid_ is not in the index and returns uuid_ if it is
draw_uuid(op, index, uuid_) ==
    /\ blast.op = "idle" \/ (blast.op = op /\ blast.kind = "looping")
    /\ blast' = [op |-> op, pre |-> board, id |-> None, arg |-> uuid_,
                 kind |-> IF uuid_ \notin DOMAIN index THEN "looping" ELSE "ok",
                 ret |-> IF uuid_ \notin DOMAIN index THEN None ELSE uuid_]
    /\ UNCHANGED <<now, task, last, hist, board, config, source>>

\* Board.new_project_uuid, one pass
DoNewProjectUuid(uuid_) == draw_uuid("new_project_uuid", board.project_uuid_to_id, uuid_)

\* Board.new_task_uuid, one pass
DoNewTaskUuid(uuid_) == draw_uuid("new_task_uuid", board.task_uuid_to_id, uuid_)

UuidNext ==
    \/ \E uuid_ \in Uuids : DoNewProjectUuid(uuid_)
    \/ \E uuid_ \in Uuids : DoNewTaskUuid(uuid_)

SpecUuid == UuidInit /\ [][UuidNext]_vars

\* uuid4 is random: a uuid that can be drawn again and again is drawn
SpecUuidFair ==
    /\ SpecUuid
    /\ \A uuid_ \in Uuids : SF_vars(DoNewProjectUuid(uuid_)) /\ SF_vars(DoNewTaskUuid(uuid_))

\* the allocator has returned
ReturnedUuid == blast.op \in {"new_project_uuid", "new_task_uuid"} /\ blast.kind = "ok"

\* the index the allocator consulted
UuidIndex ==
    IF blast.op = "new_project_uuid" THEN board.project_uuid_to_id ELSE board.task_uuid_to_id

(* C32: the uuid the allocator returns is fresh.  Whenever new_project_uuid
   (new_task_uuid) returns, the uuid it returns is not registered in the
   project (task) uuid index of the board. *)
C32_ReturnedUuidIsFresh == ReturnedUuid => blast.ret \notin DOMAIN UuidIndex

(* C32, termination: every call of the allocator returns after finitely
   many draws. *)
C32_AllocatorReturns == (blast.op # "idle") ~> ReturnedUuid

----------------------------------------------------------------------------
(* Board: calls on boards built from the empty board

   SpecBuilt runs the Board calls of SpecBoard on the start boards that
   create_project, create_task, delete_* and apply_status_action build from
   Board(name='myboard'): the empty board among them, none constructed from
   the maps of a snapshot. *)

BuiltInit == BoardInit /\ blast.op = "build"

SpecBuilt == BuiltInit /\ [][BoardNext]_vars

\* the ids of the stored tasks with completed_time unset
IncompleteIds(b) == {i \in DOMAIN b.tasks : b.tasks[i].completed_time = None}

\* two stored incomplete tasks with names that match under the active matcher
NameClash(b, cfg) ==
    \E i, j \in IncompleteIds(b) :
        i # j /\ name_matcher(cfg, b.tasks[i].name, b.tasks[j].name)

(* C33: name uniqueness is a board invariant.  On a board built from the
   empty board by create_task, update_task, apply_status_action, reset_task,
   delete_task and update_with_board, no two stored tasks with
   completed_time unset have names that match under the active name
   matcher. *)
C33_IncompleteNamesUnique == ~NameClash(board, config)

----------------------------------------------------------------------------
\* update_with_board raised after the version check
MergeRaised ==
    /\ blast.op = "update_with_board"
    /\ blast.kind \notin {"ok", "VersionMismatchError"}

(* C34: update_with_board is all-or-nothing.  If the call raises an error
   after the version check, the projects, the tasks and the uuid indices of
   the receiver are exactly as they were before the call: no entity of the
   other board has been inserted or substituted. *)
C34_FailedMergeChangesNothing == MergeRaised => BoardState(board) = BoardState(BPre)

----------------------------------------------------------------------------
\* update_with_board(other) was called on an empty receiver of other's
\* version
MergedIntoEmpty ==
    /\ blast.op = "update_with_board"
    /\ DOMAIN BPre.projects = {}
    /\ DOMAIN BPre.tasks = {}
    /\ blast.arg.version <= BPre.version

\* the map mine holds exactly the entities of the map theirs, each under
\* some id, as rewritten by the operator of that name
HoldsExactly(mine, theirs, rewritten) ==
    /\ Cardinality(DOMAIN mine) = Cardinality(DOMAIN theirs)
    /\ \A j \in DOMAIN theirs : \E i \in DOMAIN mine : mine[i] = rewritten[j]

(* C35: merging into an empty board always succeeds.  For every valid board
   other, whatever ids it uses for its projects and tasks,
   update_with_board(other) on an empty receiver raises no error and leaves
   the receiver holding exactly the entities of other, each under some id,
   with references denoting the same uuids. *)
C35_MergeIntoEmptySucceeds ==
    MergedIntoEmpty =>
        /\ BOk
        /\ HoldsExactly(board.projects, blast.arg.projects,
                        [j \in DOMAIN blast.arg.projects |->
                            RewriteProject(blast.arg.projects[j], board, blast.arg)])
        /\ HoldsExactly(board.tasks, blast.arg.tasks,
                        [j \in DOMAIN blast.arg.tasks |->
                            RewriteTask(blast.arg.tasks[j], board, blast.arg)])

----------------------------------------------------------------------------
\* every uuid on the map before is on the map after under the same id
KeepsUuids(before, after) ==
    \A i \in DOMAIN before : i \in DOMAIN after /\ after[i].uuid = before[i].uuid

\* no uuid is stored under two different ids of the map
UuidsDistinct(m) == \A i, j \in DOMAIN m : m[i].uuid = m[j].uuid => i = j

(* C36: update_with_board only adds or substitutes, never removes or
   duplicates.  Every uuid stored in the receiver before the call is still
   stored, under the same id, after it; after a successful call every uuid
   of the other board is stored in the receiver; and the call never leaves a
   uuid stored under two different ids of the same map. *)
C36_MergeOnlyAddsOrSubstitutes ==
    blast.op = "update_with_board" =>
        /\ KeepsUuids(BPre.projects, board.projects)
        /\ KeepsUuids(BPre.tasks, board.tasks)
        /\ BOk =>
              /\ StoredUuids(blast.arg.projects) \subseteq StoredUuids(board.projects)
              /\ StoredUuids(blast.arg.tasks) \subseteq StoredUuids(board.tasks)
        /\ UuidsDistinct(BPre.projects) => UuidsDistinct(board.projects)
        /\ UuidsDistinct(BPre.tasks) => UuidsDistinct(board.tasks)

----------------------------------------------------------------------------
\* update_task was called on a stored task
UpdatedTask == blast.op = "update_task" /\ blast.id \in DOMAIN BPre.tasks

\* the task the call was to store
UpdatedValue == ReplaceTask(BPre.tasks[blast.id], with_modified_time(blast.arg, now))

(* C37: the duplicate-name rule concerns incomplete tasks only.  update_task
   raises DuplicateTaskNameError only when the updated task is itself
   incomplete after the update and its name matches the name of another
   incomplete task; an update of a completed task that leaves it complete
   (an edit of its description, say) is not refused for its name. *)
C37_DuplicateNameRuleForIncompleteOnly ==
    (UpdatedTask /\ blast.kind = "DuplicateTaskNameError") =>
        /\ UpdatedValue.kind = "ok"
        /\ UpdatedValue.task.completed_time = None
        /\ first_name_match(config, UpdatedValue.task.name,
                            incomplete_task_names(BPre, {blast.id}))

----------------------------------------------------------------------------
\* the transitions of a task
Transitions == {"started", "completed", "paused", "resumed", "apply_status_action"}

(* C38: the transition guards are sufficient for the validator.  For every
   valid task and every transition (start, pause, resume, complete and the
   compound apply_status_action), the call either fails on its own status
   and timestamp guards or returns a task that satisfies every
   timestamp-consistency rule: the constructor never rejects the output of a
   transition. *)
C38_GuardsSufficeForValidator ==
    last.op \in Transitions =>
        /\ last.res.kind \in {"ok", "TaskStatusError"}
        /\ Succeeded => NewTask(Out).kind = "ok"

(* C38, second half: on the tasks reached from a fresh todo task by
   transitions, last_paused_time and completed_time are never both set. *)
C38_PausedExcludesCompleted ==
    task.last_paused_time = None \/ task.completed_time = None

----------------------------------------------------------------------------
(* Task: lead time and cycle time

   Durations are floats: get_duration_between divides the seconds between
   two datetimes by SECS_PER_DAY.  On the timestamps of Spec and SpecLife,
   whole days, the quotient is exact.  SpecFloat runs the lifecycle of a
   task on timestamps that are fractions of a day, where the quotient is
   rounded to the precision of the float. *)

\* Task.lead_time: from created to completed, None unless complete
lead_time(t) ==
    IF Status(t) = "complete"
    THEN get_duration_between(t.created_time, t.completed_time)
    ELSE None

\* Task.cycle_time: from first started to completed, None unless complete
cycle_time(t) ==
    IF Status(t) = "complete"
    THEN get_duration_between(t.first_started_time, t.completed_time)
    ELSE None

\* the timestamps of SpecFloat are ticks, TicksPerDay to the day; a
\* duration is a number of days kept to 1/DayPrecision
MaxTick == 4
TicksPerDay == 3
DayPrecision == 10

Ticks == 0..MaxTick
TicksOpt == Ticks \cup {None}

\* n / d rounded to the nearest integer, ties to even (IEEE 754)
RoundedQuotient(n, d) ==
    LET q == n \div d
        r == n % d
    IN  IF 2 * r < d THEN q
        ELSE IF 2 * r > d THEN q + 1
        ELSE IF q % 2 = 0 THEN q ELSE q + 1

\* get_duration_between on ticks: (dt2 - dt1).total_seconds() / SECS_PER_DAY
\* as a float
float_duration_between(dt1, dt2) ==
    RoundedQuotient((dt2 - dt1) * DayPrecision, TicksPerDay)

\* Task.total_time_worked on ticks, read at clock reading cur
TotalTimeWorkedFloat(t, cur) ==
    LET dur == IF t.prior_time_worked = None THEN 0 ELSE t.prior_time_worked
        last_started_time == OrElse(t.last_started_time, t.first_started_time)
    IN  IF t.last_paused_time = None /\ last_started_time # None
        THEN dur + float_duration_between(last_started_time, OrElse(t.completed_time, cur))
        ELSE dur

\* Task.lead_time on ticks
lead_time_float(t) ==
    IF Status(t) = "complete"
    THEN float_duration_between(t.created_time, t.completed_time)
    ELSE None

\* Task.cycle_time on ticks
cycle_time_float(t) ==
    IF Status(t) = "complete"
    THEN float_duration_between(t.first_started_time, t.completed_time)
    ELSE None

\* Task.paused on ticks
PausedFloat(t, dt, cur) ==
    IF Status(t) = "active"
    THEN LET d == OrElse(dt, cur)
             last_started_time == OrElse(t.last_started_time, t.first_started_time)
             dur == (IF t.prior_time_worked = None THEN 0 ELSE t.prior_time_worked)
                        + float_duration_between(last_started_time, d)
         IN  IF d < last_started_time
             THEN Raise("TaskStatusError", "cannot pause a task before its last started time")
             ELSE NewTask([t EXCEPT !.last_started_time = None, !.last_paused_time = d,
                                    !.prior_time_worked = dur, !.modified_time = cur])
    ELSE Raise("TaskStatusError", "cannot pause task")

\* Task.resumed on ticks
ResumedFloat(t, dt, cur) ==
    IF Status(t) \in {"paused", "complete"}
    THEN LET d == OrElse(dt, cur)
         IN  IF Status(t) = "paused"
             THEN IF d < t.last_paused_time
                  THEN Raise("TaskStatusError", "cannot resume a task before its last paused time")
                  ELSE NewTask([t EXCEPT !.last_started_time = d, !.last_paused_time = None,
                                         !.modified_time = cur])
             ELSE IF d < t.completed_time
                  THEN Raise("TaskStatusError", "cannot resume a task before its completed time")
                  ELSE NewTask([t EXCEPT !.last_started_time = d,
                                         !.prior_time_worked = TotalTimeWorkedFloat(t, cur),
                                         !.completed_time = None, !.modified_time = cur])
    ELSE Raise("TaskStatusError", "cannot resume task")

\* task = Task(name='task', created_time=c): a fresh todo task
FloatInit ==
    /\ now = 0
    /\ board = EmptyBoard
    /\ blast = BoardIdle
    /\ config = DefaultConfig
    /\ source = EmptyBoard
    /\ last = Idle
    /\ hist = [NoHist EXCEPT !.fresh = TRUE]
    /\ \E c \in Ticks : task = TaskKw(0, c, None, None, None, None, None, FALSE)

\* get_current_time() advances between two calls
FloatTick ==
    /\ now < MaxTick
    /\ now' = now + 1
    /\ UNCHANGED <<task, last, hist, board, blast, config, source>>

\* the call op made on the task at clock reading now returned res; a call
\* that raised leaves the task, and the record, as they were
FloatCall(op, res) ==
    /\ Len(hist.ops) < MaxOps
    /\ task' = After(task, res)
    /\ hist' = IF res.kind = "ok" THEN [hist EXCEPT !.ops = Append(@, op)] ELSE hist
    /\ UNCHANGED <<now, last, board, blast, config, source>>

FloatStarted == \E dt \in TicksOpt : FloatCall("started", Started(task, dt, now))

FloatPaused == \E dt \in TicksOpt : FloatCall("paused", PausedFloat(task, dt, now))

FloatResumed == \E dt \in TicksOpt : FloatCall("resumed", ResumedFloat(task, dt, now))

FloatCompleted == \E dt \in TicksOpt : FloatCall("completed", Completed(task, dt, now))

FloatNext ==
    \/ FloatTick
    \/ FloatStarted
    \/ FloatPaused
    \/ FloatResumed
    \/ FloatCompleted

SpecFloat == FloatInit /\ [][FloatNext]_vars

(* C39: for every completed task reached from a fresh todo task by
   transitions (pause/resume cycles and reopening after completion
   included), lead_time and cycle_time are defined and
   0 <= total_time_worked <= cycle_time <= lead_time; for every task that is
   not complete, lead_time and cycle_time are undefined. *)
C39_TimesOrdered ==
    IF Status(task) = "complete"
    THEN /\ lead_time_float(task) # None
         /\ cycle_time_float(task) # None
         /\ \A c \in Ticks :
               /\ 0 <= TotalTimeWorkedFloat(task, c)
               /\ TotalTimeWorkedFloat(task, c) <= cycle_time_float(task)
         /\ cycle_time_float(task) <= lead_time_float(task)
    ELSE /\ lead_time_float(task) = None
         /\ cycle_time_float(task) = None

(* C39 on timestamps of whole days, where every duration is exact: the
   times of a task reached from a fresh todo task are ordered as above. *)
C39_TimesOrderedOnWholeDays ==
    hist.fresh =>
        IF Status(task) = "complete"
        THEN /\ lead_time(task) # None
             /\ cycle_time(task) # None
             /\ \A c \in Times :
                   /\ 0 <= TotalTimeWorked(task, c)
                   /\ TotalTimeWorked(task, c) <= cycle_time(task)
             /\ cycle_time(task) <= lead_time(task)
        ELSE /\ lead_time(task) = None
             /\ cycle_time(task) = None

====
